---- MODULE Spec2Model ----
(***************************************************************************)
(* overcontext: schema registry, filesystem / memory / hierarchical        *)
(* storage providers.  Paths are sequences of path components, entities    *)
(* and parsed YAML bodies are records (functions from field names), lists  *)
(* are sequences, a JavaScript Map is a sequence of <<key, value>> pairs   *)
(* in insertion order.                                                     *)
(***************************************************************************)
EXTENDS Integers, Sequences, FiniteSets, TLC

(* ---------------- bounds of the model ---------------- *)

\* object references: 1 .. MaxRefs
MaxRefs == 16
\* largest offset and largest limit given to find
MaxPage == 2
\* latest time new Date() returns
MaxClock == 1
\* largest suffix of an id that create generates: <slug>-2 .. <slug>-MaxSuffix
MaxSuffix == 2

\* the longest list a search of the model sorts
MaxSorted == 6

\* the largest maxLevels given to a directory walker
MaxLevels == 4

VARIABLES
    backend,    \* which provider this behaviour drives: "memory" | "filesystem" |
                \* "hierarchical", or "both" for a memory and a filesystem provider side by side
    readonly,   \* the provider's readonly option
    fs,         \* the disk: file path -> file content
    dirs,       \* the disk: set of existing directory paths
    clock,      \* what new Date() returns
    last,       \* the last call made by the caller, with its outcome
    store,      \* memory provider: the Map namespace -> type -> id -> object reference
    heap,       \* the JavaScript objects: reference -> object (or Free)
    callerRefs, \* the objects the caller holds from its last call: arguments and results
    schemas,         \* schema registry: the Map type -> registered schema
    directoryToType, \* schema registry: the Map directory name -> type
    handlers,        \* observable provider: the Set of subscribed handlers, in insertion order
    emitted,         \* observable provider: the events the last call passed to emit
    delivered,       \* observable provider: the handler calls the last call made
    inflight,        \* the calls that have started and not returned, one per caller
    contextRoot      \* hierarchical provider: the ContextRoot it was created with

vars == <<backend, readonly, fs, dirs, clock, last, store, heap, callerRefs,
          schemas, directoryToType, handlers, emitted, delivered, inflight, contextRoot>>

(* ---------------- JavaScript values ---------------- *)

\* the value undefined, as an argument (namespace?: string)
UNDEF == "<undefined>"

\* the value undefined, as the result of a read
Undefined == [undefined |-> TRUE]

\* the registry of the providers' fixtures, register({ type: 'person', schema:
\* PersonSchema, pluralName: 'people' }), and a provider nobody observes
PersonRegistered ==
    /\ schemas = << <<"person", [type |-> "person", pluralName |-> "people"]>> >>
    /\ directoryToType = << <<"people", "person">> >>
    /\ handlers = <<>>
    /\ emitted = <<>>
    /\ delivered = <<>>
    /\ inflight = <<>>
    /\ contextRoot = Undefined

\* { ...a, ...b }
Spread(a, b) ==
    [k \in (DOMAIN a) \cup (DOMAIN b) |-> IF k \in DOMAIN b THEN b[k] ELSE a[k]]

\* const { k1, k2, ...rest } = e
Omit(e, keys) == [k \in (DOMAIN e) \ keys |-> e[k]]

\* the keys of e that an object schema declares (zod strips the others)
Pick(e, keys) == [k \in (DOMAIN e) \cap keys |-> e[k]]

\* list.slice(from)
SliceFrom(s, from) == SubSeq(s, from + 1, Len(s))

\* list.slice(0, n)
SliceTo(s, n) == SubSeq(s, 1, IF n < Len(s) THEN n ELSE Len(s))

\* Map.prototype.set: an existing key keeps its position, a new key goes last
MapSet(m, k, v) ==
    IF \E i \in 1..Len(m) : m[i][1] = k
    THEN [i \in 1..Len(m) |-> IF m[i][1] = k THEN <<k, v>> ELSE m[i]]
    ELSE Append(m, <<k, v>>)

\* Array.from(map.values())
MapValues(m) == [i \in 1..Len(m) |-> m[i][2]]

RECURSIVE MapSetAll(_, _)
\* for (const entity of entities) byId.set(entity.id, entity)
MapSetAll(m, entities) ==
    IF entities = <<>> THEN m
    ELSE MapSetAll(MapSet(m, Head(entities).id, Head(entities)), Tail(entities))

\* map.has(k)
MapHas(m, k) == \E i \in 1..Len(m) : m[i][1] = k

\* map.get(k) for a key the map has
MapGet(m, k) == m[CHOOSE i \in 1..Len(m) : m[i][1] = k][2]

\* map.delete(k)
MapDelete(m, k) == SelectSeq(m, LAMBDA e : e[1] # k)

\* the elements of a list
Range(s) == {s[i] : i \in 1..Len(s)}

\* `${baseId}-${i}`
Suffixed(baseId, i) == baseId \o "-" \o ToString(i)

\* the ids create generates from the name 'New'
GeneratedIds == {"new"} \cup {Suffixed("new", i) : i \in 2..MaxSuffix}

(* ---------------- JavaScript objects ---------------- *)

\* a reference no object lives at
Free == [free |-> TRUE]

\* no object allocated yet
EmptyHeap == [r \in 1..MaxRefs |-> Free]

\* the reference a new object gets: the smallest free one
NewRef(h) == CHOOSE r \in 1..MaxRefs : h[r] = Free /\ \A q \in 1..(r - 1) : h[q] # Free

\* a new object: it gets the smallest free reference
Allocate(h, object) == [heap |-> [h EXCEPT ![NewRef(h)] = object], ref |-> NewRef(h)]

\* an object literal with the given value: a nested object (the field tags) is an
\* object of its own, the field holds a reference to it
NewObject(h, value) ==
    LET Outer(nested) ==
            Allocate(nested.heap, [value EXCEPT !.tags = [ref |-> nested.ref]])
    IN  IF "tags" \in DOMAIN value THEN Outer(Allocate(h, value.tags))
        ELSE Allocate(h, value)

RECURSIVE NewObjects(_, _)
\* one object literal per value of a list
NewObjects(h, values) ==
    LET Rest(one) ==
            LET After(rest) == [heap |-> rest.heap, refs |-> <<one.ref>> \o rest.refs]
            IN  After(NewObjects(one.heap, Tail(values)))
    IN  IF values = <<>> THEN [heap |-> h, refs |-> <<>>]
        ELSE Rest(NewObject(h, Head(values)))

\* the value of the object at r, nested objects included
Deref(h, r) ==
    IF "tags" \in DOMAIN h[r] THEN [h[r] EXCEPT !.tags = h[h[r].tags.ref]] ELSE h[r]

\* structuredClone(object): a new object graph with the same value
StructuredClone(h, r) == NewObject(h, Deref(h, r))

\* { ...object }: a new object whose fields hold the same nested objects
ShallowCopy(h, r) == Allocate(h, h[r])

\* the objects reachable from the references `roots`
Reach(h, roots) ==
    roots \cup {h[r].tags.ref : r \in {x \in roots : "tags" \in DOMAIN h[x]}}

\* garbage collection: an object nothing refers to is gone
Collect(h, roots) == [r \in 1..MaxRefs |-> IF r \in Reach(h, roots) THEN h[r] ELSE Free]

RECURSIVE Flatten(_)
\* lists.flat()
Flatten(lists) == IF lists = <<>> THEN <<>> ELSE Head(lists) \o Flatten(Tail(lists))

RECURSIVE Visit(_, _, _)
\* the objects reachable from the list `roots`, each once, in the order a traversal
\* from the roots meets them
Visit(h, roots, seen) ==
    IF roots = <<>> THEN seen
    ELSE LET r == Head(roots)
             s1 == IF r \in Range(seen) THEN seen ELSE Append(seen, r)
             s2 == IF "tags" \in DOMAIN h[r] /\ h[r].tags.ref \notin Range(s1)
                   THEN Append(s1, h[r].tags.ref) ELSE s1
         IN  Visit(h, Tail(roots), s2)

\* the position of r in a list that holds it once
IndexOf(list, r) == CHOOSE i \in 1..Len(list) : list[i] = r

\* references carry no meaning beyond identity: the heap with its live objects (those
\* of `order`) numbered in that order, everything else collected
Renumber(h, order) ==
    [i \in 1..MaxRefs |->
        IF i > Len(order) THEN Free
        ELSE IF "tags" \in DOMAIN h[order[i]]
        THEN [h[order[i]] EXCEPT !.tags = [ref |-> IndexOf(order, h[order[i]].tags.ref)]]
        ELSE h[order[i]]]

(* ---------------- node:path ---------------- *)

\* the components of a string that is used as one argument of path.join
Segments(s) ==
    CASE s = "../../etc/passwd"      -> <<"..", "..", "etc", "passwd">>
      [] s = "../../etc/passwd.yaml" -> <<"..", "..", "etc", "passwd.yaml">>
      [] s = "../../context"         -> <<"..", "..", "context">>
      [] s = ".."                    -> <<"..">>
      [] s = "./work"                -> <<".", "work">>
      [] s = ""                      -> <<>>
      [] OTHER                       -> <<s>>

RECURSIVE Normalize(_, _)
\* path.normalize on an absolute path: ".." pops a component, "." and "" vanish
Normalize(todo, done) ==
    IF todo = <<>> THEN done
    ELSE LET h == Head(todo) IN
         IF h = ".."
         THEN Normalize(Tail(todo),
                        IF done = <<>> THEN <<>> ELSE SubSeq(done, 1, Len(done) - 1))
         ELSE IF h = "." \/ h = ""
         THEN Normalize(Tail(todo), done)
         ELSE Normalize(Tail(todo), Append(done, h))

\* path.join(p, s) for an absolute path p
PathJoin(p, s) == Normalize(p \o Segments(s), <<>>)

\* `${id}${extension}` with the default extension '.yaml'
WithExtension(id) ==
    CASE id = "a"                -> "a.yaml"
      [] id = "b"                -> "b.yaml"
      [] id = "../../etc/passwd" -> "../../etc/passwd.yaml"
      [] id \in GeneratedIds     -> id \o ".yaml"
      [] OTHER                   -> "?.yaml"

\* file.endsWith('.yaml') || file.endsWith('.yml')
IsYamlFile(name) ==
    name \in {"a.yaml", "b.yaml", "passwd.yaml", "?.yaml"} \cup {WithExtension(id) : id \in GeneratedIds}

\* p lies under the directory base (or is base itself)
IsUnder(p, base) == Len(p) >= Len(base) /\ SubSeq(p, 1, Len(base)) = base

\* every ancestor directory of p and p itself: what mkdir(p, {recursive: true}) makes exist
Ancestors(p) == {SubSeq(p, 1, n) : n \in 0..Len(p)}

(* ---------------- schema registry (registry.ts, base.ts, validation.ts) ---------------- *)

\* registry.types(): Array.from(schemas.keys())
registeredTypes == [i \in 1..Len(schemas) |-> schemas[i][1]]

\* registry.getDirectoryName(type): schemas.get(type)?.pluralName
getDirectoryName(type) ==
    IF MapHas(schemas, type) THEN MapGet(schemas, type).pluralName ELSE UNDEF

\* the registered types: the types schemas.get(type) finds a schema for
RegisteredTypes == Range(registeredTypes)

\* getDirectoryName(type) as the providers call it
GetDirectoryName(type) == getDirectoryName(type)

\* the keys PersonSchema declares: BaseEntitySchema merged with EntityMetadataSchema, plus company
DeclaredKeys(type) ==
    {"id", "name", "type", "notes", "createdAt", "updatedAt", "createdBy",
     "namespace", "source", "company"}

\* /^[a-zA-Z0-9][-a-zA-Z0-9_.]*$/ on the id strings of the model
MatchesIdPattern(id) == id \in {"a", "b"} \cup GeneratedIds

\* schema.safeParse(data).success for the schema registered for `type`
SchemaAccepts(type, data) ==
    /\ "id" \in DOMAIN data /\ MatchesIdPattern(data.id)
    /\ "name" \in DOMAIN data /\ data.name # ""
    /\ "type" \in DOMAIN data /\ data.type = type

\* validateEntity(schema, data): { success, data } where data is the parsed output,
\* which for a z.object schema holds the declared keys only
ValidateEntity(type, data) ==
    IF SchemaAccepts(type, data)
    THEN [success |-> TRUE, data |-> Pick(data, DeclaredKeys(type))]
    ELSE [success |-> FALSE, data |-> Undefined]

\* a registry that accepts every entity
AcceptAll(entity) == [success |-> TRUE, data |-> entity]

\* registry.validate(entity)
Validate(entity) ==
    LET Checked(schemaResult) ==
            IF ~schemaResult.success THEN schemaResult
            ELSE [success |-> TRUE, data |-> entity]
    IN  IF entity.type \notin RegisteredTypes
        THEN [success |-> FALSE, data |-> Undefined]
        ELSE Checked(ValidateEntity(entity.type, entity))

\* registry.validateAs(type, data) for an object `data`
ValidateAs(type, data) ==
    IF type \notin RegisteredTypes
    THEN [success |-> FALSE, data |-> Undefined]
    ELSE ValidateEntity(type, Spread(data, [type |-> type]))

(* ---------------- the disk ---------------- *)

\* a file that yaml.load parses into the object `body`; yaml.dump(body) writes it
YamlObject(body) == [parse |-> "object", body |-> body]

\* a file yaml.load throws on ('not: valid: yaml: [')
CorruptYaml == [parse |-> "error", body |-> [name |-> ""]]

\* the file names readdir can return, in the order it returns them
FileNames ==
    <<"README.md", "a.yaml", "b.yaml", "new.yaml">>
    \o [i \in 1..(MaxSuffix - 1) |-> WithExtension(Suffixed("new", i + 1))]
    \o <<"passwd.yaml">>

\* fs.readdir(dir)
ReadDir(f, dir) == SelectSeq(FileNames, LAMBDA n : Append(dir, n) \in DOMAIN f)

\* fs.writeFile(path, content)
WriteFile(f, path, content) ==
    [q \in (DOMAIN f) \cup {path} |-> IF q = path THEN content ELSE f[q]]

\* fs.unlink(path) of an existing file
Unlink(f, path) == [q \in (DOMAIN f) \ {path} |-> f[q]]

(* ---------------- filesystem provider (filesystem.ts) ---------------- *)

\* a provider is its options: p.basePath, p.readonly, p.createIfMissing, p.defaultNamespace
FileSystemProvider(basePath, ro, createIfMissing) ==
    [basePath |-> basePath, readonly |-> ro, createIfMissing |-> createIfMissing,
     defaultNamespace |-> UNDEF]

\* namespace ?? defaultNamespace
OrDefault(p, namespace) == IF namespace = UNDEF THEN p.defaultNamespace ELSE namespace

\* getEntityDir for a registered type (the caller handles SchemaNotRegisteredError)
GetEntityDir(p, type, namespace) ==
    IF namespace # UNDEF /\ namespace # ""
    THEN PathJoin(PathJoin(p.basePath, namespace), GetDirectoryName(type))
    ELSE PathJoin(p.basePath, GetDirectoryName(type))

\* getEntityPath for a registered type
GetEntityPath(p, type, id, namespace) ==
    PathJoin(GetEntityDir(p, type, namespace), WithExtension(id))

\* readEntity(filePath, type): the entity, or Undefined for a missing, unparseable,
\* non-object or schema-invalid file
ReadEntity(f, filePath, type) ==
    LET Checked(result) == IF result.success THEN result.data ELSE Undefined
    IN  IF filePath \notin DOMAIN f THEN Undefined
        ELSE IF f[filePath].parse # "object" THEN Undefined
        ELSE Checked(ValidateAs(type, Spread(f[filePath].body, [source |-> filePath])))

\* provider.get: throws SchemaNotRegisteredError for an unregistered type
FsGet(p, f, type, id, namespace) ==
    IF type \notin RegisteredTypes
    THEN [outcome |-> "SchemaNotRegisteredError", value |-> Undefined]
    ELSE [outcome |-> "ok",
          value |-> ReadEntity(f, GetEntityPath(p, type, id, OrDefault(p, namespace)), type)]

RECURSIVE ReadAllUntilBad(_, _, _, _)
\* a loop that gives up at the first file readEntity returns nothing for
ReadAllUntilBad(f, dir, files, type) ==
    LET Next(entity) ==
            IF entity = Undefined THEN <<>>
            ELSE <<entity>> \o ReadAllUntilBad(f, dir, Tail(files), type)
    IN  IF files = <<>> THEN <<>>
        ELSE IF ~IsYamlFile(Head(files)) THEN ReadAllUntilBad(f, dir, Tail(files), type)
        ELSE Next(ReadEntity(f, Append(dir, Head(files)), type))

RECURSIVE ReadAll(_, _, _, _)
\* the loop of getAll over the files of dir
ReadAll(f, dir, files, type) ==
    LET Next(entity) ==
            IF entity = Undefined THEN ReadAll(f, dir, Tail(files), type)
            ELSE <<entity>> \o ReadAll(f, dir, Tail(files), type)
    IN  IF files = <<>> THEN <<>>
        ELSE IF ~IsYamlFile(Head(files)) THEN ReadAll(f, dir, Tail(files), type)
        ELSE Next(ReadEntity(f, Append(dir, Head(files)), type))

\* provider.getAll
FsGetAll(p, f, d, type, namespace) ==
    LET In(dir) == IF dir \notin d THEN <<>> ELSE ReadAll(f, dir, ReadDir(f, dir), type)
    IN  IF type \notin RegisteredTypes THEN <<>>
        ELSE In(GetEntityDir(p, type, OrDefault(p, namespace)))

\* filter.type ? (Array.isArray(filter.type) ? filter.type : [filter.type]) : registry.types()
FilterTypes(filter) == IF filter.type = UNDEF THEN registeredTypes ELSE <<filter.type>>

RECURSIVE FsGetAllTypes(_, _, _, _, _)
\* for (const type of types) results = results.concat(await this.getAll(type, namespace))
FsGetAllTypes(p, f, d, types, namespace) ==
    IF types = <<>> THEN <<>>
    ELSE FsGetAll(p, f, d, Head(types), namespace)
         \o FsGetAllTypes(p, f, d, Tail(types), namespace)

\* if (filter.offset) results = results.slice(filter.offset);
\* if (filter.limit) results = results.slice(0, filter.limit)
Paginate(results, filter) ==
    LET afterOffset == IF filter.offset # 0 THEN SliceFrom(results, filter.offset) ELSE results
    IN  IF filter.limit # 0 THEN SliceTo(afterOffset, filter.limit) ELSE afterOffset

\* the ids and search filters of find
MatchesFilter(e, filter) ==
    /\ (filter.ids # <<>> => \E i \in 1..Len(filter.ids) : filter.ids[i] = e.id)

\* provider.find
FsFind(p, f, d, filter) ==
    Paginate(SelectSeq(FsGetAllTypes(p, f, d, FilterTypes(filter), OrDefault(p, filter.namespace)),
                       LAMBDA e : MatchesFilter(e, filter)),
             filter)

\* provider.exists
FsExists(p, f, type, id, namespace) ==
    IF type \notin RegisteredTypes THEN FALSE
    ELSE GetEntityPath(p, type, id, OrDefault(p, namespace)) \in DOMAIN f

\* ensureDir(dir): the directories that exist afterwards
EnsureDir(p, d, dir) ==
    IF dir \notin d /\ p.createIfMissing /\ ~p.readonly THEN d \cup Ancestors(dir) ELSE d

\* writeEntity(entity, namespace) at time `now`: the outcome, the returned entity and the disk afterwards
WriteEntity(p, f, d, entity, namespace, now) ==
    LET Written(d2, filePath, toSave) ==
            IF GetEntityDir(p, entity.type, namespace) \notin d2
            THEN [outcome |-> "ENOENT", value |-> Undefined, fs |-> f, dirs |-> d2]
            ELSE [outcome |-> "ok",
                  value |-> Spread(Spread(entity, toSave),
                                   [type |-> entity.type, source |-> filePath]),
                  fs |-> WriteFile(f, filePath, YamlObject(toSave)),
                  dirs |-> d2]
        Stamped(entityToSave) ==
            Spread(entityToSave,
                   [updatedAt |-> now,
                    createdAt |-> IF "createdAt" \in DOMAIN entityToSave
                                  THEN entityToSave.createdAt ELSE now])
    IN  IF p.readonly
        THEN [outcome |-> "ReadonlyStorageError", value |-> Undefined, fs |-> f, dirs |-> d]
        ELSE IF ~Validate(entity).success
        THEN [outcome |-> "ValidationError", value |-> Undefined, fs |-> f, dirs |-> d]
        ELSE Written(EnsureDir(p, d, GetEntityDir(p, entity.type, namespace)),
                     GetEntityPath(p, entity.type, entity.id, namespace),
                     Stamped(Omit(entity, {"type", "source"})))

\* provider.save
FsSave(p, f, d, entity, namespace, now) ==
    WriteEntity(p, f, d, entity, OrDefault(p, namespace), now)

\* provider.delete: true when the file was unlinked, false on ENOENT
FsDelete(p, f, d, type, id, namespace) ==
    LET At(filePath) ==
            IF filePath \in DOMAIN f
            THEN [outcome |-> "ok", value |-> TRUE, fs |-> Unlink(f, filePath), dirs |-> d]
            ELSE [outcome |-> "ok", value |-> FALSE, fs |-> f, dirs |-> d]
    IN  IF p.readonly
        THEN [outcome |-> "ReadonlyStorageError", value |-> FALSE, fs |-> f, dirs |-> d]
        ELSE IF type \notin RegisteredTypes
        THEN [outcome |-> "SchemaNotRegisteredError", value |-> FALSE, fs |-> f, dirs |-> d]
        ELSE At(GetEntityPath(p, type, id, OrDefault(p, namespace)))

RECURSIVE FsSaveBatch(_, _, _, _, _, _)
\* provider.saveBatch: saves one after the other, the first failure rejects the batch
FsSaveBatch(p, f, d, entities, namespace, now) ==
    LET Rest(one) ==
            LET After(rest) ==
                    IF rest.outcome # "ok" THEN rest
                    ELSE [rest EXCEPT !.value = <<one.value>> \o rest.value]
            IN  IF one.outcome # "ok" THEN one
                ELSE After(FsSaveBatch(p, one.fs, one.dirs, Tail(entities), namespace, now))
    IN  IF entities = <<>>
        THEN [outcome |-> "ok", value |-> <<>>, fs |-> f, dirs |-> d]
        ELSE Rest(FsSave(p, f, d, Head(entities), namespace, now))

RECURSIVE FsDeleteBatch(_, _, _, _, _)
\* provider.deleteBatch: the number of deletes that returned true
FsDeleteBatch(p, f, d, refs, namespace) ==
    LET Rest(one) ==
            LET After(rest) ==
                    IF rest.outcome # "ok" THEN rest
                    ELSE [rest EXCEPT !.value = rest.value + (IF one.value THEN 1 ELSE 0)]
            IN  IF one.outcome # "ok" THEN [one EXCEPT !.value = 0]
                ELSE After(FsDeleteBatch(p, one.fs, one.dirs, Tail(refs), namespace))
    IN  IF refs = <<>>
        THEN [outcome |-> "ok", value |-> 0, fs |-> f, dirs |-> d]
        ELSE Rest(FsDelete(p, f, d, Head(refs).type, Head(refs).id, namespace))

(* ---------------- hierarchical provider (hierarchical-provider.ts) ---------------- *)

\* contextRoot.contextPaths, closest first: /workspace/project/context, /workspace/context
ContextPaths == << <<"workspace", "project", "context">>, <<"workspace", "context">> >>

\* contextRoot.primary: directories[0]?.path
Primary == ContextPaths[1]

\* the read-only filesystem providers, one per context directory
ReadProviders == [i \in 1..Len(ContextPaths) |-> FileSystemProvider(ContextPaths[i], TRUE, FALSE)]

\* the provider all writes go to
PrimaryProvider(ro) == FileSystemProvider(Primary, ro, TRUE)

RECURSIVE HierGetLastHit(_, _, _, _, _)
\* a get loop that keeps looking after a hit, so the farthest hit wins
HierGetLastHit(i, f, type, id, namespace) ==
    LET Next(r, further) ==
            IF r.outcome # "ok" THEN r
            ELSE IF further.value # Undefined THEN further
            ELSE r
    IN  IF i > Len(ReadProviders) THEN [outcome |-> "ok", value |-> Undefined]
        ELSE Next(FsGet(ReadProviders[i], f, type, id, namespace),
                  HierGetLastHit(i + 1, f, type, id, namespace))

RECURSIVE HierGetFrom(_, _, _, _, _)
\* the loop of get over the read providers from index i on: first hit wins
HierGetFrom(i, f, type, id, namespace) ==
    LET Next(r) ==
            IF r.outcome # "ok" \/ r.value # Undefined THEN r
            ELSE HierGetFrom(i + 1, f, type, id, namespace)
    IN  IF i > Len(ReadProviders) THEN [outcome |-> "ok", value |-> Undefined]
        ELSE Next(FsGet(ReadProviders[i], f, type, id, namespace))

\* hierarchical get
HierGet(f, type, id, namespace) == HierGetFrom(1, f, type, id, namespace)

RECURSIVE HierMergeClosestFirst(_, _)
\* the merge loop run over readProviders without the reverse(): the farthest provider
\* is set last and overwrites
HierMergeClosestFirst(perProvider, i) ==
    IF i > Len(perProvider) THEN <<>>
    ELSE MapSetAll(HierMergeClosestFirst(SubSeq(perProvider, 1, Len(perProvider) - i), 1),
                   perProvider[Len(perProvider) + 1 - i])

RECURSIVE HierMerge(_, _)
\* the loop over [...readProviders].reverse(): perProvider[i] is what provider i returned;
\* starts with the last provider, so a closer provider's entity overwrites a farther one's
HierMerge(perProvider, i) ==
    IF i > Len(perProvider) THEN <<>>
    ELSE MapSetAll(HierMerge(perProvider, i + 1), perProvider[i])

\* hierarchical getAll
HierGetAll(f, d, type, namespace) ==
    MapValues(HierMerge([i \in 1..Len(ReadProviders) |->
                            FsGetAll(ReadProviders[i], f, d, type, namespace)], 1))

\* findEntities: every provider's find(filter), merged by id, then offset and limit
HierFind(f, d, filter) ==
    Paginate(MapValues(HierMerge([i \in 1..Len(ReadProviders) |->
                                     FsFind(ReadProviders[i], f, d, filter)], 1)),
             filter)

RECURSIVE HierExistsFrom(_, _, _, _, _)
\* the loop of exists over the read providers
HierExistsFrom(i, f, type, id, namespace) ==
    IF i > Len(ReadProviders) THEN FALSE
    ELSE IF FsExists(ReadProviders[i], f, type, id, namespace) THEN TRUE
    ELSE HierExistsFrom(i + 1, f, type, id, namespace)

\* hierarchical exists
HierExists(f, type, id, namespace) == HierExistsFrom(1, f, type, id, namespace)

\* hierarchical count
HierCount(f, d, filter) == Len(HierFind(f, d, filter))

\* save: (entity, namespace) => primaryProvider.save(entity, namespace)
HierSave(ro, f, d, entity, namespace, now) ==
    FsSave(PrimaryProvider(ro), f, d, entity, namespace, now)

\* a delete that unlinks the file in every context directory
HierDeleteEverywhere(ro, f, d, type, id, namespace) ==
    LET r == FsDelete(PrimaryProvider(ro), f, d, type, id, namespace)
        paths == {GetEntityPath(ReadProviders[i], type, id, namespace) :
                    i \in 1..Len(ReadProviders)}
    IN  IF r.outcome # "ok" THEN r
        ELSE [r EXCEPT !.fs = [q \in (DOMAIN f) \ paths |-> f[q]],
                       !.value = (paths \cap DOMAIN f # {})]

\* delete: (type, id, namespace) => primaryProvider.delete(type, id, namespace)
HierDelete(ro, f, d, type, id, namespace) ==
    FsDelete(PrimaryProvider(ro), f, d, type, id, namespace)

\* saveBatch: (entities, namespace) => primaryProvider.saveBatch(entities, namespace)
HierSaveBatch(ro, f, d, entities, namespace, now) ==
    FsSaveBatch(PrimaryProvider(ro), f, d, entities, namespace, now)

\* deleteBatch: (refs, namespace) => primaryProvider.deleteBatch(refs, namespace)
HierDeleteBatch(ro, f, d, refs, namespace) ==
    FsDeleteBatch(PrimaryProvider(ro), f, d, refs, namespace)

(* ---------------- memory provider ---------------- *)

\* cloneEntity(entity)
CloneEntity(h, r) == StructuredClone(h, r)

\* resolveNamespace(ns): ns ?? defaultNamespace ?? '_default', no defaultNamespace given
ResolveNamespace(ns) == IF ns = UNDEF THEN "_default" ELSE ns

\* the store after getNamespaceStore(namespace): a missing namespace Map is created
GetNamespaceStore(st, namespace) ==
    IF MapHas(st, namespace) THEN st ELSE MapSet(st, namespace, <<>>)

\* the store after getTypeStore(namespace, type): missing Maps are created
GetTypeStore(st, namespace, type) ==
    LET In(s1, nsStore) ==
            IF MapHas(nsStore, type) THEN s1
            ELSE MapSet(s1, namespace, MapSet(nsStore, type, <<>>))
        With(s1) == In(s1, MapGet(s1, namespace))
    IN  With(GetNamespaceStore(st, namespace))

\* the Map id -> object that getTypeStore(namespace, type) returns
TypeStore(st, namespace, type) ==
    MapGet(MapGet(GetTypeStore(st, namespace, type), namespace), type)

\* the store after getTypeStore(namespace, type) became typeStore
WithTypeStore(st, namespace, type, typeStore) ==
    LET In(s1) == MapSet(s1, namespace, MapSet(MapGet(s1, namespace), type, typeStore))
    IN  In(GetTypeStore(st, namespace, type))

\* every object the store refers to, in the order of the Maps
StoreRefList(st) ==
    Flatten([i \in 1..Len(st) |->
                Flatten([j \in 1..Len(st[i][2]) |-> MapValues(st[i][2][j][2])])])

StoreRefs(st) == Range(StoreRefList(st))

\* the store with every reference r replaced by ref[r]
RenumberStore(st, order) ==
    [i \in 1..Len(st) |->
        <<st[i][1],
          [j \in 1..Len(st[i][2]) |->
              <<st[i][2][j][1],
                [k \in 1..Len(st[i][2][j][2]) |->
                    <<st[i][2][j][2][k][1], IndexOf(order, st[i][2][j][2][k][2])>>]>>]>>]

RECURSIVE CreateMemoryProvider(_, _, _)
\* for (const entity of initialData) getTypeStore(ns, entity.type).set(entity.id, entity)
CreateMemoryProvider(st, h, initialData) ==
    LET Set(entity, ns) ==
            WithTypeStore(st, ns, entity.type,
                          MapSet(TypeStore(st, ns, entity.type), entity.id, Head(initialData)))
        Put(entity) ==
            Set(entity, ResolveNamespace(IF "namespace" \in DOMAIN entity
                                         THEN entity.namespace ELSE UNDEF))
    IN  IF initialData = <<>> THEN st
        ELSE CreateMemoryProvider(Put(h[Head(initialData)]), h, Tail(initialData))

\* memory get: the outcome, the value of the returned object, the store and the heap
\* afterwards, and the returned objects
MemGet(st, h, type, id, namespace) ==
    LET Found(clone) ==
            [outcome |-> "ok", value |-> Deref(clone.heap, clone.ref),
             store |-> GetTypeStore(st, ResolveNamespace(namespace), type),
             heap |-> clone.heap, refs |-> <<clone.ref>>]
        In(typeStore) ==
            IF MapHas(typeStore, id) THEN Found(CloneEntity(h, MapGet(typeStore, id)))
            ELSE [outcome |-> "ok", value |-> Undefined,
                  store |-> GetTypeStore(st, ResolveNamespace(namespace), type),
                  heap |-> h, refs |-> <<>>]
    IN  In(TypeStore(st, ResolveNamespace(namespace), type))

RECURSIVE CloneAll(_, _)
\* entities.map(e => cloneEntity(e))
CloneAll(h, entities) ==
    LET Rest(one) ==
            LET After(rest) == [heap |-> rest.heap, refs |-> <<one.ref>> \o rest.refs]
            IN  After(CloneAll(one.heap, Tail(entities)))
    IN  IF entities = <<>> THEN [heap |-> h, refs |-> <<>>]
        ELSE Rest(CloneEntity(h, Head(entities)))

\* the values of a list of objects
DerefAll(h, refs) == [i \in 1..Len(refs) |-> Deref(h, refs[i])]

\* memory getAll
MemGetAll(st, h, type, namespace) ==
    LET Result(clones) ==
            [outcome |-> "ok", value |-> DerefAll(clones.heap, clones.refs),
             store |-> GetTypeStore(st, ResolveNamespace(namespace), type),
             heap |-> clones.heap, refs |-> clones.refs]
    IN  Result(CloneAll(h, MapValues(TypeStore(st, ResolveNamespace(namespace), type))))

RECURSIVE MemGetAllTypes(_, _, _, _)
\* for (const type of types) results = results.concat(await this.getAll(type, ns))
MemGetAllTypes(st, h, types, ns) ==
    LET Rest(one) ==
            LET After(rest) ==
                    [store |-> rest.store, heap |-> rest.heap, refs |-> one.refs \o rest.refs]
            IN  After(MemGetAllTypes(one.store, one.heap, Tail(types), ns))
    IN  IF types = <<>> THEN [store |-> st, heap |-> h, refs |-> <<>>]
        ELSE Rest(MemGetAll(st, h, Head(types), ns))

\* memory find
MemFind(st, h, filter) ==
    LET Page(all, results) ==
            [outcome |-> "ok", value |-> DerefAll(all.heap, results),
             store |-> all.store, heap |-> all.heap, refs |-> results]
        Result(all) ==
            Page(all,
                 Paginate(SelectSeq(all.refs, LAMBDA r : MatchesFilter(all.heap[r], filter)),
                          filter))
    IN  Result(MemGetAllTypes(st, h, FilterTypes(filter), ResolveNamespace(filter.namespace)))

\* memory exists
MemExists(st, h, type, id, namespace) ==
    [outcome |-> "ok",
     value |-> MapHas(TypeStore(st, ResolveNamespace(namespace), type), id),
     store |-> GetTypeStore(st, ResolveNamespace(namespace), type), heap |-> h,
     refs |-> <<>>]

\* memory count
MemCount(st, h, filter) ==
    LET Result(found) == [found EXCEPT !.value = Len(found.refs), !.refs = <<>>]
    IN  Result(MemFind(st, h, filter))

\* memory save of the caller's object `entity` at time `now`
MemSave(ro, st, h, entity, namespace, now) ==
    LET ns == ResolveNamespace(namespace)
        Result(typeStore, stored, returned) ==
            [outcome |-> "ok", value |-> Deref(returned.heap, returned.ref),
             store |-> WithTypeStore(st, ns, h[entity].type,
                                     MapSet(typeStore, h[entity].id, stored.ref)),
             heap |-> returned.heap, refs |-> <<returned.ref>>]
        Return(typeStore, saved, stored) ==
            Result(typeStore, stored, CloneEntity(stored.heap, saved.ref))
        Store(typeStore, saved) == Return(typeStore, saved, CloneEntity(saved.heap, saved.ref))
        Build(typeStore, existing) ==
            Store(typeStore,
                  Allocate(h, Spread(h[entity],
                                     [namespace |-> ns,
                                      createdAt |-> IF "createdAt" \in DOMAIN existing
                                                    THEN existing.createdAt ELSE now,
                                      updatedAt |-> now])))
        In(typeStore) ==
            Build(typeStore,
                  IF MapHas(typeStore, h[entity].id)
                  THEN h[MapGet(typeStore, h[entity].id)] ELSE Undefined)
    IN  IF ro
        THEN [outcome |-> "ReadonlyStorageError", value |-> Undefined,
              store |-> st, heap |-> h, refs |-> <<>>]
        ELSE IF ~Validate(h[entity]).success
        THEN [outcome |-> "ValidationError", value |-> Undefined,
              store |-> st, heap |-> h, refs |-> <<>>]
        ELSE In(TypeStore(st, ns, h[entity].type))

\* memory delete
MemDelete(ro, st, h, type, id, namespace) ==
    LET In(typeStore) ==
            [outcome |-> "ok", value |-> MapHas(typeStore, id),
             store |-> WithTypeStore(st, ResolveNamespace(namespace), type,
                                     MapDelete(typeStore, id)),
             heap |-> h, refs |-> <<>>]
    IN  IF ro
        THEN [outcome |-> "ReadonlyStorageError", value |-> FALSE,
              store |-> st, heap |-> h, refs |-> <<>>]
        ELSE In(TypeStore(st, ResolveNamespace(namespace), type))

RECURSIVE MemSaveBatch(_, _, _, _, _, _)
\* memory saveBatch: Promise.all over entities.map(save), so every save runs and the
\* first rejection in list order is the batch's
MemSaveBatch(ro, st, h, entities, namespace, now) ==
    LET Rest(one) ==
            LET After(rest) ==
                    IF one.outcome # "ok"
                    THEN [rest EXCEPT !.outcome = one.outcome, !.value = Undefined,
                                      !.refs = <<>>]
                    ELSE IF rest.outcome # "ok" THEN rest
                    ELSE [rest EXCEPT !.value = <<one.value>> \o rest.value,
                                      !.refs = one.refs \o rest.refs]
            IN  After(MemSaveBatch(ro, one.store, one.heap, Tail(entities), namespace, now))
    IN  IF entities = <<>>
        THEN [outcome |-> "ok", value |-> <<>>, store |-> st, heap |-> h, refs |-> <<>>]
        ELSE Rest(MemSave(ro, st, h, Head(entities), namespace, now))

RECURSIVE MemDeleteBatch(_, _, _, _, _)
\* memory deleteBatch: one delete after the other
MemDeleteBatch(ro, st, h, refs, namespace) ==
    LET Rest(one) ==
            LET After(rest) ==
                    IF rest.outcome # "ok" THEN rest
                    ELSE [rest EXCEPT !.value = rest.value + (IF one.value THEN 1 ELSE 0)]
            IN  IF one.outcome # "ok" THEN [one EXCEPT !.value = 0]
                ELSE After(MemDeleteBatch(ro, one.store, one.heap, Tail(refs), namespace))
    IN  IF refs = <<>>
        THEN [outcome |-> "ok", value |-> 0, store |-> st, heap |-> h, refs |-> <<>>]
        ELSE Rest(MemDelete(ro, st, h, Head(refs).type, Head(refs).id, namespace))

\* memory listNamespaces: Array.from(store.keys()).filter(ns => ns !== '_default')
MemListNamespaces(st) ==
    SelectSeq([i \in 1..Len(st) |-> st[i][1]], LAMBDA ns : ns # "_default")

\* memory namespaceExists: store.has(namespace)
MemNamespaceExists(st, namespace) == MapHas(st, namespace)

\* memory listTypes: the keys of the namespace's Map, [] when it has none
MemListTypes(st, namespace) ==
    LET Keys(nsStore) == [i \in 1..Len(nsStore) |-> nsStore[i][1]]
    IN  IF MapHas(st, ResolveNamespace(namespace))
        THEN Keys(MapGet(st, ResolveNamespace(namespace))) ELSE <<>>

(* ---------------- the callers' inputs ---------------- *)

\* entity types the callers name: one registered, one not
Types == {"person", "ghost"}

\* well-formed ids
Ids == {"a", "b"}

\* an id that walks out of the type directory
TraversalId == "../../etc/passwd"

\* well-formed namespaces: none, and 'work'
Namespaces == {UNDEF, "work"}

\* namespaces that walk out of basePath: to its parent, and from the primary
\* context directory to the distant one
TraversalNamespaces == {"..", "../../context"}

\* entities handed to save: two valid ones (the second with a declared and an
\* undeclared extra field), and three that fail validation (empty name, unsafe id,
\* unregistered type)
EntityA == [id |-> "a", name |-> "New", type |-> "person"]

\* company is declared by PersonSchema; nickname and the nested object tags are not
EntityB ==
    [id |-> "b", name |-> "New", type |-> "person", company |-> "Acme",
     nickname |-> "Al", tags |-> [label |-> "vip"]]

EmptyName == [id |-> "a", name |-> "", type |-> "person"]

UnsafeId == [id |-> TraversalId, name |-> "New", type |-> "person"]

UnknownType == [id |-> "a", name |-> "New", type |-> "ghost"]

ValidEntities == {EntityA, EntityB}

InvalidEntities == {EmptyName, UnsafeId, UnknownType}

Entities == ValidEntities \cup InvalidEntities

\* filters handed to find: every page of the person type, and two filters
\* without a page (all registered types; an ids filter)
NoFilter == [type |-> UNDEF, namespace |-> UNDEF, ids |-> <<>>, offset |-> 0, limit |-> 0]

Filters ==
    { [NoFilter EXCEPT !.type = "person", !.offset = o, !.limit = l] :
        o \in 0..MaxPage, l \in 0..MaxPage }
    \cup {NoFilter, [NoFilter EXCEPT !.ids = <<"a">>]}

\* filters handed to count
CountFilters == {NoFilter, [NoFilter EXCEPT !.ids = <<"a">>]}

(* ---------------- initial disks ---------------- *)

\* the name a hand-written file of context directory i carries
VersionName(i) == IF i = 1 THEN "A version" ELSE "B version"

\* the other well-formed id
OtherId(id) == IF id = "a" THEN "b" ELSE "a"

\* a file yaml.load parses into a string, a number or null
ScalarYaml == [parse |-> "scalar", body |-> [name |-> ""]]

\* what a hand-written file <id>.yaml of context directory i can be: a record with
\* its own id, a record whose body names another id, a record without an id key,
\* a record the schema rejects (empty name), a value that is not an object, or a
\* file yaml.load throws on
HandWritten(i, id, choice) ==
    CASE choice = "own"     -> YamlObject([id |-> id, name |-> VersionName(i)])
      [] choice = "foreign" -> YamlObject([id |-> OtherId(id), name |-> VersionName(i)])
      [] choice = "noid"    -> YamlObject([name |-> VersionName(i)])
      [] choice = "invalid" -> YamlObject([id |-> id, name |-> ""])
      [] choice = "scalar"  -> ScalarYaml
      [] OTHER              -> CorruptYaml

\* the path of <id>.yaml for the default namespace of context directory i
PeopleDir(i) == ContextPaths[i] \o <<"people">>
PersonFile(i, id) == Append(PeopleDir(i), WithExtension(id))

\* a file that is not an entity record
Readme == [parse |-> "scalar", body |-> [name |-> ""]]
ReadmePath == Append(PeopleDir(Len(ContextPaths)), "README.md")

\* the directories of a disk that holds the files of f under the context directories
DirsOf(f) ==
    UNION {Ancestors(ContextPaths[i]) : i \in 1..Len(ContextPaths)}
    \cup UNION {Ancestors(SubSeq(q, 1, Len(q) - 1)) : q \in DOMAIN f}

\* the disks a behaviour can start from: every person file of every context
\* directory is absent or holds any hand-written content
InitialDisks ==
    LET slots == (1..Len(ContextPaths)) \X Ids
        fileOf(c) == {PersonFile(s[1], s[2]) : s \in {t \in slots : c[t] # "absent"}}
        slotOf(q) == CHOOSE s \in slots : PersonFile(s[1], s[2]) = q
    IN  { [q \in fileOf(c) \cup {ReadmePath} |->
             IF q = ReadmePath THEN Readme
             ELSE HandWritten(slotOf(q)[1], slotOf(q)[2], c[slotOf(q)])] :
          c \in [slots -> {"absent", "own", "foreign", "corrupt"}] }

NoCall == [op |-> "none"]


(* ---------------- the calls of the StorageProvider interface ---------------- *)

\* the standalone filesystem provider: createFileSystemProvider({ basePath, registry,
\* readonly }) over the directory /workspace/project/context
BasePath == ContextPaths[1]

Provider == FileSystemProvider(BasePath, readonly, TRUE)

\* a call that resolved with the value v
Ok(v) == [outcome |-> "ok", value |-> v]

\* a read of a filesystem-backed provider, with result r (outcome, value): the disk
\* stays as it is
Read(call, r) ==
    /\ last' = Spread(call, [outcome |-> r.outcome, value |-> r.value])
    /\ UNCHANGED <<contextRoot, backend, readonly, fs, dirs, clock, store, heap, callerRefs,
                     schemas, directoryToType, handlers, emitted, delivered, inflight>>

\* a write call of a filesystem-backed provider with result r (outcome, value, disk
\* afterwards)
WriteCall(call, r) ==
    /\ last' = Spread(call, [outcome |-> r.outcome, value |-> r.value])
    /\ fs' = r.fs
    /\ dirs' = r.dirs
    /\ UNCHANGED <<contextRoot, backend, readonly, clock, store, heap, callerRefs,
                     schemas, directoryToType>>

\* a write call of a provider nobody observes
Write(call, r) == WriteCall(call, r) /\ UNCHANGED <<handlers, emitted, delivered, inflight>>

\* the heap when the caller has let go of the objects of its earlier calls
Kept == Collect(heap, StoreRefs(store))

\* the memory provider's side of a call with result r (outcome, value, store and
\* heap afterwards, returned objects); the caller keeps the objects it passed (args)
\* and the objects it got back
MemoryWorld(call, r, args) ==
    LET Keep(held, order) ==
            /\ last' = Spread(call, [outcome |-> r.outcome, value |-> r.value])
            /\ store' = RenumberStore(r.store, order)
            /\ callerRefs' = [i \in 1..Len(held) |-> IndexOf(order, held[i])]
            /\ heap' = Renumber(r.heap, order)
        With(held) == Keep(held, Visit(r.heap, StoreRefList(r.store) \o held, <<>>))
    IN  With(args \o r.refs)

\* a call of the memory provider with result r
MemoryCall(call, r, args) ==
    /\ MemoryWorld(call, r, args)
    /\ UNCHANGED <<contextRoot, backend, readonly, fs, dirs, clock, schemas, directoryToType>>

\* the same call made on a memory provider, with result m, and on a filesystem
\* provider, with result f (outcome, value, disk afterwards)
Both(call, m, f, args) ==
    /\ MemoryWorld(Spread(call, [filesystem |-> [outcome |-> f.outcome, value |-> f.value]]),
                   m, args)
    /\ fs' = f.fs
    /\ dirs' = f.dirs
    /\ UNCHANGED <<contextRoot, backend, readonly, clock, schemas, directoryToType,
                   handlers, emitted, delivered, inflight>>

\* a call of a memory provider nobody observes
MemCall(call, r, args) == MemoryCall(call, r, args) /\ UNCHANGED <<handlers, emitted, delivered, inflight>>

\* each call takes its arguments from the set it is given: <<type, id, namespace>>
\* for get, exists and delete, <<type, namespace>> for getAll, a filter for find and
\* count, <<entity, namespace>> for save, <<batch, namespace>> for the batch calls

\* provider.get(type, id, namespace)
Get(args) ==
    \E a \in args :
        LET call == [op |-> "get", type |-> a[1], id |-> a[2], namespace |-> a[3]]
        IN  CASE backend = "memory" ->
                    MemCall(call, MemGet(store, Kept, a[1], a[2], a[3]), <<>>)
              [] backend = "filesystem" -> Read(call, FsGet(Provider, fs, a[1], a[2], a[3]))
              [] backend = "hierarchical" -> Read(call, HierGet(fs, a[1], a[2], a[3]))

\* provider.getAll(type, namespace)
GetAll(args) ==
    \E a \in args :
        LET call == [op |-> "getAll", type |-> a[1], namespace |-> a[2]]
        IN  CASE backend = "memory" -> MemCall(call, MemGetAll(store, Kept, a[1], a[2]), <<>>)
              [] backend = "filesystem" ->
                    Read(call, Ok(FsGetAll(Provider, fs, dirs, a[1], a[2])))
              [] backend = "hierarchical" -> Read(call, Ok(HierGetAll(fs, dirs, a[1], a[2])))

\* provider.find(filter)
Find(filters) ==
    \E filter \in filters :
        LET call == [op |-> "find", filter |-> filter]
        IN  CASE backend = "memory" -> MemCall(call, MemFind(store, Kept, filter), <<>>)
              [] backend = "filesystem" -> Read(call, Ok(FsFind(Provider, fs, dirs, filter)))
              [] backend = "hierarchical" -> Read(call, Ok(HierFind(fs, dirs, filter)))

\* provider.exists(type, id, namespace)
Exists(args) ==
    \E a \in args :
        LET call == [op |-> "exists", type |-> a[1], id |-> a[2], namespace |-> a[3]]
        IN  CASE backend = "memory" ->
                    MemCall(call, MemExists(store, Kept, a[1], a[2], a[3]), <<>>)
              [] backend = "filesystem" ->
                    Read(call, Ok(FsExists(Provider, fs, a[1], a[2], a[3])))
              [] backend = "hierarchical" -> Read(call, Ok(HierExists(fs, a[1], a[2], a[3])))

\* provider.count(filter)
Count(filters) ==
    \E filter \in filters :
        LET call == [op |-> "count", filter |-> filter]
        IN  CASE backend = "memory" -> MemCall(call, MemCount(store, Kept, filter), <<>>)
              [] backend = "filesystem" ->
                    Read(call, Ok(Len(FsFind(Provider, fs, dirs, filter))))
              [] backend = "hierarchical" -> Read(call, Ok(HierCount(fs, dirs, filter)))

\* provider.save(entity, namespace); the caller of the memory provider builds the
\* entity object and passes it
Save(args) ==
    \E a \in args :
        LET call == [op |-> "save", entity |-> a[1], type |-> a[1].type, id |-> a[1].id,
                     namespace |-> a[2]]
            entity == NewObject(Kept, a[1])
        IN  CASE backend = "memory" ->
                    MemCall(call, MemSave(readonly, store, entity.heap, entity.ref, a[2], clock),
                            <<entity.ref>>)
              [] backend = "filesystem" ->
                    Write(call, FsSave(Provider, fs, dirs, a[1], a[2], clock))
              [] backend = "hierarchical" ->
                    Write(call, HierSave(readonly, fs, dirs, a[1], a[2], clock))
              [] backend = "both" ->
                    Both(call, MemSave(readonly, store, entity.heap, entity.ref, a[2], clock),
                         FsSave(Provider, fs, dirs, a[1], a[2], clock), <<entity.ref>>)

\* provider.delete(type, id, namespace)
Delete(args) ==
    \E a \in args :
        LET call == [op |-> "delete", type |-> a[1], id |-> a[2], namespace |-> a[3]]
        IN  CASE backend = "memory" ->
                    MemCall(call, MemDelete(readonly, store, Kept, a[1], a[2], a[3]), <<>>)
              [] backend = "filesystem" ->
                    Write(call, FsDelete(Provider, fs, dirs, a[1], a[2], a[3]))
              [] backend = "hierarchical" ->
                    Write(call, HierDelete(readonly, fs, dirs, a[1], a[2], a[3]))
              [] backend = "both" ->
                    Both(call, MemDelete(readonly, store, Kept, a[1], a[2], a[3]),
                         FsDelete(Provider, fs, dirs, a[1], a[2], a[3]), <<>>)

\* provider.saveBatch(entities, namespace)
SaveBatch(args) ==
    \E a \in args :
        LET call == [op |-> "saveBatch", entities |-> a[1], namespace |-> a[2]]
            entities == NewObjects(Kept, a[1])
        IN  CASE backend = "memory" ->
                    MemCall(call,
                            MemSaveBatch(readonly, store, entities.heap, entities.refs,
                                         a[2], clock),
                            entities.refs)
              [] backend = "filesystem" ->
                    Write(call, FsSaveBatch(Provider, fs, dirs, a[1], a[2], clock))
              [] backend = "hierarchical" ->
                    Write(call, HierSaveBatch(readonly, fs, dirs, a[1], a[2], clock))
              [] backend = "both" ->
                    Both(call,
                         MemSaveBatch(readonly, store, entities.heap, entities.refs,
                                      a[2], clock),
                         FsSaveBatch(Provider, fs, dirs, a[1], a[2], clock), entities.refs)

\* provider.deleteBatch(refs, namespace)
DeleteBatch(args) ==
    \E a \in args :
        LET call == [op |-> "deleteBatch", refs |-> a[1], namespace |-> a[2]]
        IN  CASE backend = "memory" ->
                    MemCall(call, MemDeleteBatch(readonly, store, Kept, a[1], a[2]), <<>>)
              [] backend = "filesystem" ->
                    Write(call, FsDeleteBatch(Provider, fs, dirs, a[1], a[2]))
              [] backend = "hierarchical" ->
                    Write(call, HierDeleteBatch(readonly, fs, dirs, a[1], a[2]))
              [] backend = "both" ->
                    Both(call, MemDeleteBatch(readonly, store, Kept, a[1], a[2]),
                         FsDeleteBatch(Provider, fs, dirs, a[1], a[2]), <<>>)

\* what the caller's assignments make of an object: entity.name = 'Mutated',
\* entity.tags.label = 'mutated'
Mutated(object) ==
    IF "name" \in DOMAIN object THEN [object EXCEPT !.name = "Mutated"]
    ELSE [object EXCEPT !.label = "mutated"]

\* the caller assigns to the fields of every object it holds from its last call and
\* of the objects nested in them
Mutate ==
    /\ backend = "memory"
    /\ callerRefs # <<>>
    /\ last.op # "mutate"
    /\ heap' = [r \in 1..MaxRefs |->
                   IF r \in Reach(heap, Range(callerRefs)) THEN Mutated(heap[r]) ELSE heap[r]]
    /\ last' = [op |-> "mutate", after |-> last.op]
    /\ UNCHANGED <<contextRoot, backend, readonly, fs, dirs, clock, store, callerRefs,
                     schemas, directoryToType, handlers, emitted, delivered, inflight>>

\* the batches handed to saveBatch: empty, all valid, an invalid entity first, an
\* invalid entity last
SaveBatches ==
    {<<>>, <<EntityA, EntityB>>, <<EmptyName, EntityB>>, <<EntityB, EmptyName>>}

\* the batches handed to deleteBatch
RefBatches == {<<>>, << [type |-> "person", id |-> "a"] >>,
               << [type |-> "person", id |-> "a"], [type |-> "person", id |-> "b"] >>}

(* ---------------- the hierarchical provider over any directory contents ---------------- *)

\* after createHierarchicalProvider over the two context directories
InitHier ==
    /\ backend = "hierarchical"
    /\ readonly = FALSE
    /\ fs \in InitialDisks
    /\ dirs = DirsOf(fs)
    /\ clock = 0
    /\ last = NoCall
    /\ store = <<>>
    /\ heap = EmptyHeap
    /\ callerRefs = <<>>
    /\ PersonRegistered

\* the hierarchical provider called with well-formed arguments
NextHier ==
    \/ Get(Types \X Ids \X {UNDEF})
    \/ GetAll(Types \X {UNDEF})
    \/ Find(Filters)
    \/ Exists(Types \X Ids \X {UNDEF})
    \/ Count(CountFilters)
    \/ Save(Entities \X {UNDEF})
    \/ Delete(Types \X Ids \X {UNDEF})
    \/ SaveBatch(SaveBatches \X {UNDEF})
    \/ DeleteBatch(RefBatches \X {UNDEF})

SpecHier == InitHier /\ [][NextHier]_vars

(* ---------------- the three providers, called with well-formed arguments ---------------- *)

\* the context directories exist and hold nothing
BareDisk == [q \in {ReadmePath} |-> Readme]

\* the directories of the hierarchical provider's tests: the closest one holds a,
\* the distant one holds its own versions of a and of b
FixtureDisk ==
    [q \in {PersonFile(1, "a"), PersonFile(2, "a"), PersonFile(2, "b"), ReadmePath} |->
        IF q = ReadmePath THEN Readme
        ELSE IF q = PersonFile(1, "a") THEN HandWritten(1, "a", "own")
        ELSE IF q = PersonFile(2, "a") THEN HandWritten(2, "a", "own")
        ELSE HandWritten(2, "b", "own")]

\* initialData of createMemoryProvider: none, or one entity
InitialDatas == {<<>>, << [id |-> "a", name |-> "Seed", type |-> "person"] >>}

InitProviders ==
    /\ backend \in {"memory", "filesystem", "hierarchical"}
    /\ readonly \in BOOLEAN
    /\ clock = 0
    /\ last = NoCall
    /\ callerRefs = <<>>
    /\ PersonRegistered
    /\ IF backend = "memory"
       THEN /\ fs = BareDisk
            /\ \E initialData \in InitialDatas :
                  LET objects == NewObjects(EmptyHeap, initialData)
                  IN  /\ heap = objects.heap
                      /\ store = CreateMemoryProvider(<<>>, objects.heap, objects.refs)
       ELSE /\ fs \in {BareDisk, FixtureDisk}
            /\ heap = EmptyHeap
            /\ store = <<>>
    /\ dirs = DirsOf(fs)

\* the arguments of get, exists and delete
Keys == {<<"person", "a", UNDEF>>, <<"person", "b", UNDEF>>, <<"ghost", "a", UNDEF>>,
         <<"person", "a", "work">>}

\* the arguments of save
Saves == ((ValidEntities \cup {EmptyName, UnknownType}) \X {UNDEF})
         \cup {<<EntityA, "work">>, <<UnsafeId, "work">>}

\* the filters of find
Pages == {NoFilter, [NoFilter EXCEPT !.type = "person", !.offset = 1],
          [NoFilter EXCEPT !.ids = <<"a">>]}

NextProviders ==
    \/ Get(Keys)
    \/ GetAll({<<"person", UNDEF>>})
    \/ Find(Pages)
    \/ Exists(Keys)
    \/ Count({NoFilter})
    \/ Save(Saves)
    \/ Delete(Keys)
    \/ SaveBatch(SaveBatches \X {UNDEF})
    \/ DeleteBatch(RefBatches \X {UNDEF})
    \/ Mutate

SpecProviders == InitProviders /\ [][NextProviders]_vars

(* ---------------- the memory provider created with initialData the caller
   still holds ---------------- *)

\* the initialData arrays: one entity, one entity with a nested object, both
SeededDatas ==
    { << [id |-> "a", name |-> "Seed", type |-> "person"] >>,
      << [id |-> "b", name |-> "Seed", type |-> "person", tags |-> [label |-> "vip"]] >>,
      << [id |-> "a", name |-> "Seed", type |-> "person"],
         [id |-> "b", name |-> "Seed", type |-> "person", tags |-> [label |-> "vip"]] >> }

\* after createMemoryProvider({ registry, initialData }): the caller holds the
\* objects of the array it passed
InitSeeded ==
    /\ backend = "memory"
    /\ readonly \in BOOLEAN
    /\ clock = 0
    /\ last = NoCall
    /\ PersonRegistered
    /\ fs = BareDisk
    /\ dirs = DirsOf(fs)
    /\ \E initialData \in SeededDatas :
          LET objects == NewObjects(EmptyHeap, initialData)
          IN  /\ heap = objects.heap
              /\ callerRefs = objects.refs
              /\ store = CreateMemoryProvider(<<>>, objects.heap, objects.refs)

SpecSeeded == InitSeeded /\ [][NextProviders]_vars

(* ---------------- the hierarchical provider over a registry of two types ---------------- *)

\* register({ type: 'person', pluralName: 'people' }) and
\* register({ type: 'company', pluralName: 'companies' }), nobody observing
TwoTypesRegistered ==
    /\ schemas = << <<"person", [type |-> "person", pluralName |-> "people"]>>,
                    <<"company", [type |-> "company", pluralName |-> "companies"]>> >>
    /\ directoryToType = << <<"people", "person">>, <<"companies", "company">> >>
    /\ handlers = <<>>
    /\ emitted = <<>>
    /\ delivered = <<>>
    /\ inflight = <<>>
    /\ contextRoot = Undefined

\* <contextPath>/<directory of type>/<id>.yaml of context directory i
RecordFile(i, type, id) ==
    ContextPaths[i] \o <<IF type = "person" THEN "people" ELSE "companies", WithExtension(id)>>

\* the disks: every <id>.yaml of both type directories of both context directories
\* is absent or holds a record with its own id
TwoTypeDisks ==
    LET slots == (1..Len(ContextPaths)) \X {"person", "company"} \X Ids
        fileOf(c) == {RecordFile(s[1], s[2], s[3]) : s \in {t \in slots : c[t]}}
        slotOf(q) == CHOOSE s \in slots : RecordFile(s[1], s[2], s[3]) = q
    IN  { [q \in fileOf(c) |-> HandWritten(slotOf(q)[1], slotOf(q)[3], "own")] :
          c \in [slots -> BOOLEAN] }

\* after createHierarchicalProvider over the two context directories
InitTwoTypes ==
    /\ backend = "hierarchical"
    /\ readonly = FALSE
    /\ TwoTypesRegistered
    /\ fs \in TwoTypeDisks
    /\ dirs = DirsOf(fs)
    /\ clock = 0
    /\ last = NoCall
    /\ store = <<>>
    /\ heap = EmptyHeap
    /\ callerRefs = <<>>

\* filters over one type and over every registered type
TwoTypeFilters ==
    {NoFilter, [NoFilter EXCEPT !.type = "person"], [NoFilter EXCEPT !.type = "company"]}

NextTwoTypes ==
    \/ Find(TwoTypeFilters)
    \/ Count(TwoTypeFilters)
    \/ GetAll({"person", "company"} \X {UNDEF})
    \/ Save({<<[id |-> "a", name |-> "New", type |-> "company"], UNDEF>>})

SpecTwoTypes == InitTwoTypes /\ [][NextTwoTypes]_vars

(* ---------------- filesystem-backed providers, called with ids and namespaces
   that are not plain names ---------------- *)

\* <basePath>/people/../../etc/passwd.yaml, a file outside basePath
OutsidePath == PathJoin(PathJoin(BasePath, "people"), WithExtension(TraversalId))

\* the fixture, and a record in a file outside every context directory
TraversalDisk ==
    [q \in (DOMAIN FixtureDisk) \cup {OutsidePath} |->
        IF q = OutsidePath THEN YamlObject([id |-> "a", name |-> "Secret"])
        ELSE FixtureDisk[q]]

InitTraversal ==
    /\ backend \in {"filesystem", "hierarchical"}
    /\ readonly \in BOOLEAN
    /\ fs = TraversalDisk
    /\ dirs = DirsOf(fs)
    /\ clock = 0
    /\ last = NoCall
    /\ store = <<>>
    /\ heap = EmptyHeap
    /\ callerRefs = <<>>
    /\ PersonRegistered

\* the namespaces of these calls
AnyNamespaces == {UNDEF} \cup TraversalNamespaces

\* the arguments of get, exists and delete
TraversalKeys ==
    ({"person"} \X {"a"} \X AnyNamespaces)
    \cup {<<"person", TraversalId, UNDEF>>, <<"person", "b", "../../context">>}

NextTraversal ==
    \/ Get(TraversalKeys)
    \/ Exists(TraversalKeys)
    \/ GetAll({"person"} \X AnyNamespaces)
    \/ Save({EntityA, UnsafeId} \X AnyNamespaces)
    \/ Delete(TraversalKeys)
    \/ SaveBatch({<<EntityA, EntityB>>} \X AnyNamespaces)
    \/ DeleteBatch(RefBatches \X AnyNamespaces)

SpecTraversal == InitTraversal /\ [][NextTraversal]_vars

(* ---------------- the filesystem provider over a type directory that mixes
   records with files that are none ---------------- *)

\* what a file of the type directory can be
FileChoices == {"absent", "own", "foreign", "noid", "invalid", "scalar", "corrupt"}

\* the ids of the files the directory can hold, in readdir order
ScanIds == <<"a", "b", "new">>

\* the disks: each of a.yaml, b.yaml and new.yaml of <basePath>/people is absent
\* or holds any hand-written content; README.md is always there
ScanDisks ==
    LET fileOf(c) == {PersonFile(1, ScanIds[k]) : k \in {j \in 1..Len(ScanIds) : c[j] # "absent"}}
        slotOf(q) == CHOOSE k \in 1..Len(ScanIds) : PersonFile(1, ScanIds[k]) = q
        readme == Append(PeopleDir(1), "README.md")
    IN  { [q \in fileOf(c) \cup {readme} |->
             IF q = readme THEN Readme
             ELSE HandWritten(1, ScanIds[slotOf(q)], c[slotOf(q)])] :
          c \in [1..Len(ScanIds) -> FileChoices] }

InitScan ==
    /\ backend = "filesystem"
    /\ readonly \in BOOLEAN
    /\ fs \in ScanDisks
    /\ dirs = DirsOf(fs)
    /\ clock = 0
    /\ last = NoCall
    /\ store = <<>>
    /\ heap = EmptyHeap
    /\ callerRefs = <<>>
    /\ PersonRegistered

NextScan ==
    \/ Get({"person"} \X Range(ScanIds) \X {UNDEF})
    \/ Exists({"person"} \X Range(ScanIds) \X {UNDEF})
    \/ GetAll({<<"person", UNDEF>>})
    \/ Find(Filters)
    \/ Save({<<EntityA, UNDEF>>})
    \/ Delete({<<"person", "b", UNDEF>>})

SpecScan == InitScan /\ [][NextScan]_vars

(* ---------------- schema registry: register and its two maps (registry.ts) ---------------- *)

\* derivePluralName(type) on the type names of the model: 'y' becomes 'ies',
\* 's', 'x', 'ch' and 'sh' take 'es', every other name takes 's'
DerivePluralName(type) ==
    CASE type = "company" -> "companies"
      [] type = "box"     -> "boxes"
      [] OTHER            -> type \o "s"

\* registry.register({ type, schema, pluralName }); pluralName "" stands for an
\* absent or empty pluralName, both falsy in `pluralName || derivePluralName(type)`
Register(options) ==
    \E o \in options :
        LET Set(plural) ==
                /\ schemas' = MapSet(schemas, o.type, [type |-> o.type, pluralName |-> plural])
                /\ directoryToType' = MapSet(directoryToType, plural, o.type)
        IN  /\ Set(IF o.pluralName # "" THEN o.pluralName ELSE DerivePluralName(o.type))
            /\ last' = [op |-> "register", options |-> o, outcome |-> "ok", value |-> Undefined]
            /\ UNCHANGED <<contextRoot, backend, readonly, fs, dirs, clock, store, heap, callerRefs,
                           handlers, emitted, delivered, inflight>>

\* registry.getTypeFromDirectory(directory): directoryToType.get(directory)
getTypeFromDirectory(directory) ==
    IF MapHas(directoryToType, directory) THEN MapGet(directoryToType, directory) ELSE UNDEF

\* the registrations the callers make
Registrations ==
    [type : {"person", "company"}, pluralName : {"", "people", "companies"}]

\* createSchemaRegistry(): both maps are empty
InitRegistry ==
    /\ backend = "memory"
    /\ readonly = FALSE
    /\ fs = BareDisk
    /\ dirs = DirsOf(fs)
    /\ clock = 0
    /\ last = NoCall
    /\ store = <<>>
    /\ heap = EmptyHeap
    /\ callerRefs = <<>>
    /\ schemas = <<>>
    /\ directoryToType = <<>>
    /\ handlers = <<>>
    /\ emitted = <<>>
    /\ delivered = <<>>
    /\ inflight = <<>>
    /\ contextRoot = Undefined

NextRegistry == Register(Registrations)

SpecRegistry == InitRegistry /\ [][NextRegistry]_vars

(* ---------------- namespace resolver (namespace/resolver.ts) ---------------- *)

\* the resolver's defaultNamespace: options.defaultNamespace is not given
DefaultNamespace == "_default"

\* options.namespaces: one configured namespace, with active: false
InactiveNamespaces == {"archive"}

\* a request of resolve: Undefined, [string |-> s] or [list |-> namespaces]
\* resolve(requested): namespaceIds, then one reference per id (writable for i === 0),
\* readable = the ids, primary = the first id that is not falsy; a primary that is
\* still falsy after the loop becomes the default, which is pushed to readable
Resolve(requested) ==
    LET From(ids) ==
            LET Truthy(kept) ==
                    [primary |-> IF kept = <<>> THEN DefaultNamespace ELSE kept[1],
                     readable |-> IF kept = <<>> THEN Append(ids, DefaultNamespace) ELSE ids,
                     references |->
                        [i \in 1..Len(ids) |->
                            [namespace |-> ids[i], priority |-> Len(ids) - (i - 1),
                             searchable |-> ids[i] \notin InactiveNamespaces,
                             writable |-> i = 1]]]
            IN  Truthy(SelectSeq(ids, LAMBDA n : n # ""))
    IN  IF requested = Undefined THEN From(<<DefaultNamespace>>)
        ELSE IF "string" \in DOMAIN requested
        THEN From(<<IF requested.string = "" THEN DefaultNamespace ELSE requested.string>>)
        ELSE From(requested.list)

(* ---------------- a provider behind the StorageProvider interface ---------------- *)

\* what a call of the provider starts from: the disk, and the store with the heap
\* once the caller has let go of the objects of its earlier calls
World == [fs |-> fs, dirs |-> dirs, store |-> store, heap |-> Kept, refs |-> <<>>]

\* provider.get(type, id, ns) of the memory or the filesystem provider, in world w:
\* outcome, value and the world afterwards
ProviderGet(w, type, id, ns) ==
    IF backend = "memory" THEN Spread(w, MemGet(w.store, w.heap, type, id, ns))
    ELSE Spread(w, FsGet(Provider, w.fs, type, id, ns))

\* a getAll that lets SchemaNotRegisteredError through, as get does
ProviderGetAllOrThrow(w, type, ns) ==
    IF backend = "memory" THEN Spread(w, MemGetAll(w.store, w.heap, type, ns))
    ELSE IF type \notin RegisteredTypes
    THEN Spread(w, [outcome |-> "SchemaNotRegisteredError", value |-> <<>>])
    ELSE Spread(w, Ok(FsGetAll(Provider, w.fs, w.dirs, type, ns)))

\* provider.getAll(type, ns)
ProviderGetAll(w, type, ns) ==
    IF backend = "memory" THEN Spread(w, MemGetAll(w.store, w.heap, type, ns))
    ELSE Spread(w, Ok(FsGetAll(Provider, w.fs, w.dirs, type, ns)))

\* provider.exists(type, id, ns)
ProviderExists(w, type, id, ns) ==
    IF backend = "memory" THEN Spread(w, MemExists(w.store, w.heap, type, id, ns))
    ELSE Spread(w, Ok(FsExists(Provider, w.fs, type, id, ns)))

\* provider.save(entity, ns) at time `now`, of an entity object the caller builds
ProviderSave(w, entity, ns, now) ==
    LET Saved(object) ==
            Spread(w, MemSave(readonly, w.store, object.heap, object.ref, ns, now))
    IN  IF backend = "memory" THEN Saved(NewObject(w.heap, entity))
        ELSE Spread(w, FsSave(Provider, w.fs, w.dirs, entity, ns, now))

\* provider.delete(type, id, ns)
ProviderDelete(w, type, id, ns) ==
    IF backend = "memory" THEN Spread(w, MemDelete(readonly, w.store, w.heap, type, id, ns))
    ELSE Spread(w, FsDelete(Provider, w.fs, w.dirs, type, id, ns))

\* a call with result r (outcome, value, world afterwards) has returned
Commit(call, r) ==
    IF backend = "memory" THEN MemCall(call, r, <<>>) ELSE Write(call, r)

\* provider.saveBatch(entities, ns) at time `now`, of entity objects the caller builds
ProviderSaveBatch(w, entities, ns, now) ==
    LET Saved(objects) ==
            Spread(w, MemSaveBatch(readonly, w.store, objects.heap, objects.refs, ns, now))
    IN  IF backend = "memory" THEN Saved(NewObjects(w.heap, entities))
        ELSE Spread(w, FsSaveBatch(Provider, w.fs, w.dirs, entities, ns, now))

\* provider.deleteBatch(refs, ns)
ProviderDeleteBatch(w, refs, ns) ==
    IF backend = "memory" THEN Spread(w, MemDeleteBatch(readonly, w.store, w.heap, refs, ns))
    ELSE Spread(w, FsDeleteBatch(Provider, w.fs, w.dirs, refs, ns))

(* ---------------- observable provider (createObservableProvider) ---------------- *)

\* the handlers the callers subscribe: one that returns, one that throws, and one
\* that calls the unsubscribe function of the first when it receives an event
Log == "log"
Thrower == "thrower"
Remover == "remover"

\* handler(event) throws
Throws(handler) == handler = Thrower

\* the Set of handlers after handler(event) has run
AfterHandler(hs, handler) ==
    IF handler = Remover THEN SelectSeq(hs, LAMBDA h : h # Log) ELSE hs

RECURSIVE ForEachUntilThrow(_, _, _, _)
\* a dispatch without the try/catch: the first handler that throws ends it
ForEachUntilThrow(hs, i, event, calls) ==
    LET Visited(after, handler) ==
            IF Throws(handler)
            THEN [handlers |-> after,
                  delivered |-> Append(calls, [handler |-> handler, event |-> event,
                                               threw |-> TRUE])]
            ELSE ForEachUntilThrow(after,
                                   (CHOOSE k \in 1..Len(after) : after[k] = handler) + 1,
                                   event,
                                   Append(calls, [handler |-> handler, event |-> event,
                                                  threw |-> FALSE]))
    IN  IF i > Len(hs) THEN [handlers |-> hs, delivered |-> calls]
        ELSE Visited(AfterHandler(hs, hs[i]), hs[i])

RECURSIVE ForEach(_, _, _, _)
\* handlers.forEach(handler => { try { handler(event) } catch {} }) from entry i on:
\* a Set is visited in insertion order, an entry deleted before its turn is not
\* visited, and an exception of a handler is caught and logged
ForEach(hs, i, event, calls) ==
    LET Visited(after, handler) ==
            ForEach(after, (CHOOSE k \in 1..Len(after) : after[k] = handler) + 1, event,
                    Append(calls, [handler |-> handler, event |-> event,
                                   threw |-> Throws(handler)]))
    IN  IF i > Len(hs) THEN [handlers |-> hs, delivered |-> calls]
        ELSE Visited(AfterHandler(hs, hs[i]), hs[i])

\* emit(event)
Emit(hs, event) == ForEach(hs, 1, event, <<>>)

\* the event save emits: entity:updated when provider.get returned an entity,
\* entity:created when it returned undefined
SaveEvent(existing, saved, entity, namespace, now) ==
    IF existing # Undefined
    THEN [type |-> "entity:updated", timestamp |-> now, namespace |-> namespace,
          entityType |-> entity.type, entityId |-> entity.id, entity |-> saved,
          previousEntity |-> existing]
    ELSE [type |-> "entity:created", timestamp |-> now, namespace |-> namespace,
          entityType |-> entity.type, entityId |-> entity.id, entity |-> saved]

\* observable.save(entity, namespace) at time `now`: the provider's result and the
\* events passed to emit
ObservableSave(w, entity, namespace, now) ==
    LET Saved(existing, saved) ==
            IF saved.outcome # "ok" THEN Spread(saved, [events |-> <<>>])
            ELSE Spread(saved, [events |-> <<SaveEvent(existing.value, saved.value, entity,
                                                       namespace, now)>>])
        Got(existing) ==
            IF existing.outcome # "ok" THEN Spread(existing, [events |-> <<>>])
            ELSE Saved(existing, ProviderSave(existing, entity, namespace, now))
    IN  Got(ProviderGet(w, entity.type, entity.id, namespace))

\* observable.delete(type, id, namespace)
ObservableDelete(w, type, id, namespace, now) ==
    LET Deleted(r) ==
            IF r.outcome = "ok" /\ r.value
            THEN Spread(r, [events |-> <<[type |-> "entity:deleted", timestamp |-> now,
                                          namespace |-> namespace, entityType |-> type,
                                          entityId |-> id]>>])
            ELSE Spread(r, [events |-> <<>>])
    IN  Deleted(ProviderDelete(w, type, id, namespace))

\* a saveBatch that emits one entity:created per saved entity and no batch event
ObservableSaveBatchPerEntity(w, entities, namespace, now) ==
    LET Saved(r) ==
            IF r.outcome # "ok" THEN Spread(r, [events |-> <<>>])
            ELSE Spread(r, [events |->
                    [i \in 1..Len(r.value) |->
                        [type |-> "entity:created", timestamp |-> now,
                         namespace |-> namespace, entityType |-> r.value[i].type,
                         entityId |-> r.value[i].id, entity |-> r.value[i]]]])
    IN  Saved(ProviderSaveBatch(w, entities, namespace, now))

\* observable.saveBatch(entities, namespace)
ObservableSaveBatch(w, entities, namespace, now) ==
    LET Saved(r) ==
            IF r.outcome # "ok" THEN Spread(r, [events |-> <<>>])
            ELSE Spread(r, [events |-> <<[type |-> "batch:saved", timestamp |-> now,
                                          namespace |-> namespace, entities |-> r.value]>>])
    IN  Saved(ProviderSaveBatch(w, entities, namespace, now))

\* observable.deleteBatch(refs, namespace)
ObservableDeleteBatch(w, refs, namespace, now) ==
    LET Deleted(r) ==
            IF r.outcome # "ok" THEN Spread(r, [events |-> <<>>])
            ELSE Spread(r, [events |-> <<[type |-> "batch:deleted", timestamp |-> now,
                                          namespace |-> namespace, refs |-> refs,
                                          deletedCount |-> r.value]>>])
    IN  Deleted(ProviderDeleteBatch(w, refs, namespace))

RECURSIVE EmitAll(_, _, _)
\* emit(event) for each of the events, in order
EmitAll(hs, events, calls) ==
    LET Then(d) == EmitAll(d.handlers, Tail(events), calls \o d.delivered)
    IN  IF events = <<>> THEN [handlers |-> hs, delivered |-> calls]
        ELSE Then(Emit(hs, Head(events)))

\* a step of a call of the observable provider with result r (outcome, value, world
\* afterwards, events passed to emit)
ObservedStep(call, r) ==
    LET Emitted(d) ==
            /\ handlers' = d.handlers
            /\ emitted' = r.events
            /\ delivered' = d.delivered
    IN  /\ IF backend = "memory" THEN MemoryCall(call, r, <<>>) ELSE WriteCall(call, r)
        /\ Emitted(EmitAll(handlers, r.events, <<>>))

\* a call of the observable provider, made while no other call is in flight, has
\* returned with result r
CommitObserved(call, r) == ObservedStep(call, r) /\ UNCHANGED inflight

(* ---------------- context API (api/context.ts, api/slug.ts) and the
   multi-namespace context ---------------- *)

\* slugify(name), on the names given to create
Slugify(name) ==
    CASE name = "New" -> "new"
      [] name = "A version" -> "a-version"
      [] name = "B version" -> "b-version"
      [] OTHER -> ""

\* the ids generateUniqueId(baseName, exists) asks exists about
CandidateIds(baseName) ==
    {Slugify(baseName)} \cup {Suffixed(Slugify(baseName), i) : i \in 2..100}

\* generateUniqueId(baseName, exists) at time `now`, `taken` being the candidate ids
\* for which exists returns true: the slug, else the first free <slug>-i for
\* i = 2..100, else <slug>-<Date.now()>
GenerateUniqueId(baseName, taken, now) ==
    LET Unused(i) == Suffixed(Slugify(baseName), i) \notin taken
    IN  IF Slugify(baseName) \notin taken THEN Slugify(baseName)
        ELSE IF \E i \in 2..100 : Unused(i)
        THEN Suffixed(Slugify(baseName),
                      CHOOSE i \in 2..100 : Unused(i) /\ \A j \in 2..(i - 1) : ~Unused(j))
        ELSE Suffixed(Slugify(baseName), now)

\* a context is [defaultNamespace] (createContext, withNamespace), and for a
\* multi-namespace context also [requested]: its methods forward
\* namespace ?? resolution.primary to the context they wrap, whose
\* resolveNamespace is ns ?? defaultNamespace
ContextNamespace(ctx, ns) ==
    LET ResolveNamespaceOf(n) == IF n = UNDEF THEN ctx.defaultNamespace ELSE n
    IN  IF "requested" \in DOMAIN ctx /\ ns = UNDEF
        THEN ResolveNamespaceOf(Resolve(ctx.requested).primary)
        ELSE ResolveNamespaceOf(ns)

\* api.create(type, data, options) at time `now`; options is [id, namespace,
\* generateUniqueId]: UNDEF for an id or namespace that is not given, and
\* generateUniqueId ?? true
ApiCreate(w, ctx, type, data, options, now) ==
    LET SaveAs(w1, id, namespace) ==
            ProviderSave(w1, Spread(data, [id |-> id, type |-> type,
                                           createdAt |-> now, updatedAt |-> now]),
                         namespace, now)
        In(namespace) ==
            IF options.id # UNDEF /\ options.id # "" THEN SaveAs(w, options.id, namespace)
            ELSE IF options.generateUniqueId
            THEN SaveAs(ProviderExists(w, type, Slugify(data.name), namespace),
                        GenerateUniqueId(data.name,
                                         {id \in CandidateIds(data.name) :
                                             ProviderExists(w, type, id, namespace).value},
                                         now),
                        namespace)
            ELSE SaveAs(w, Slugify(data.name), namespace)
    IN  In(ContextNamespace(ctx, options.namespace))

\* api.upsert(type, entity, namespace) at time `now`
ApiUpsert(w, ctx, type, entity, namespace, now) ==
    LET Got(existing, ns) ==
            IF existing.outcome # "ok" THEN existing
            ELSE ProviderSave(existing,
                              Spread(Spread(IF existing.value = Undefined
                                            THEN << >> ELSE existing.value,
                                            entity),
                                     [type |-> type,
                                      createdAt |-> IF "createdAt" \in DOMAIN existing.value
                                                    THEN existing.value.createdAt ELSE now,
                                      updatedAt |-> now]),
                              ns, now)
        In(ns) == Got(ProviderGet(w, type, entity.id, ns), ns)
    IN  In(ContextNamespace(ctx, namespace))

\* an update that saves whether or not the entity exists
ApiUpdateOrCreate(w, ctx, type, id, updates, namespace, now) ==
    ApiUpsert(w, ctx, type, Spread(updates, [id |-> id]), namespace, now)

\* api.update(type, id, updates, namespace) at time `now`
ApiUpdate(w, ctx, type, id, updates, namespace, now) ==
    LET Got(existing, ns) ==
            IF existing.outcome # "ok" THEN existing
            ELSE IF existing.value = Undefined
            THEN [existing EXCEPT !.outcome = "EntityNotFoundError", !.refs = <<>>]
            ELSE ProviderSave(existing,
                              Spread(Spread(existing.value, updates),
                                     [id |-> id, type |-> type, updatedAt |-> now]),
                              ns, now)
        In(ns) == Got(ProviderGet(w, type, id, ns), ns)
    IN  In(ContextNamespace(ctx, namespace))

\* new Date() returns a later time from now on
Tick ==
    /\ clock < MaxClock
    /\ clock' = clock + 1
    /\ UNCHANGED <<contextRoot, backend, readonly, fs, dirs, last, store, heap, callerRefs,
                     schemas, directoryToType, handlers, emitted, delivered, inflight>>

\* the calls of a context take <<ctx, type, ...>> from the set they are given; the
\* call is recorded with the namespace the provider is called with

\* ctx.create(type, data, options); the ids it generates stay within GeneratedIds
Create(args) ==
    \E a \in args :
        LET Done(r) ==
                /\ r.outcome = "ok" => r.value.id \in Ids \cup GeneratedIds
                /\ Commit([op |-> "create", ctx |-> a[1], type |-> a[2], data |-> a[3],
                           options |-> a[4],
                           id |-> IF r.outcome = "ok" THEN r.value.id ELSE UNDEF,
                           namespace |-> ContextNamespace(a[1], a[4].namespace)], r)
        IN  Done(ApiCreate(World, a[1], a[2], a[3], a[4], clock))

\* ctx.update(type, id, updates, namespace)
Update(args) ==
    \E a \in args :
        Commit([op |-> "update", ctx |-> a[1], type |-> a[2], id |-> a[3],
                updates |-> a[4], given |-> a[5],
                namespace |-> ContextNamespace(a[1], a[5])],
               ApiUpdate(World, a[1], a[2], a[3], a[4], a[5], clock))

\* ctx.upsert(type, entity, namespace)
Upsert(args) ==
    \E a \in args :
        Commit([op |-> "upsert", ctx |-> a[1], type |-> a[2], id |-> a[3].id,
                entity |-> a[3], given |-> a[4],
                namespace |-> ContextNamespace(a[1], a[4])],
               ApiUpsert(World, a[1], a[2], a[3], a[4], clock))

\* ctx.get, ctx.exists, ctx.getAll and ctx.delete call the provider's method with the
\* context's namespace: the arguments of Get, Exists, GetAll and Delete for the calls
\* <<ctx, type, id, namespace>> (getAll: <<ctx, type, namespace>>)
Through(calls) ==
    {IF Len(c) = 4 THEN <<c[2], c[3], ContextNamespace(c[1], c[4])>>
     ELSE <<c[2], ContextNamespace(c[1], c[3])>> : c \in calls}

(* ---------------- search (api/search.ts) ---------------- *)

\* the cap on the entities a search loads
MAX_SEARCH_ENTITIES == 10000

\* a cap that refuses the MAX_SEARCH_ENTITIES-th entity already
AtOrOverCap(count) == count >= MAX_SEARCH_ENTITIES

\* allEntities.length > MAX_SEARCH_ENTITIES
OverCap(count) == count > MAX_SEARCH_ENTITIES

\* s.toLowerCase() on the strings of the model
ToLowerCase(s) ==
    CASE s = "New" -> "new"
      [] s = "A version" -> "a version"
      [] s = "B version" -> "b version"
      [] s = "Acme" -> "acme"
      [] OTHER -> s

\* a.includes(b) on the strings of the model
Includes(a, b) ==
    \/ b = "" \/ a = b
    \/ b = "version" /\ a \in {"A version", "B version", "a version", "b version"}
    \/ b = "a" /\ a \in {"a version", "acme"}
    \/ b = "A" /\ a \in {"A version", "Acme"}

\* textMatch(text, query, caseSensitive), text being a string
TextMatch(text, query, caseSensitive) ==
    IF text = "" THEN FALSE
    ELSE IF caseSensitive THEN Includes(text, query)
    ELSE Includes(ToLowerCase(text), ToLowerCase(query))

\* matchesSearch(entity, search, searchFields, caseSensitive): the name, then the
\* string values of searchFields
MatchesSearch(entity, search, searchFields, caseSensitive) ==
    \/ "name" \in DOMAIN entity /\ TextMatch(entity.name, search, caseSensitive)
    \/ \E i \in 1..Len(searchFields) :
          /\ searchFields[i] \in (DOMAIN entity) \cap {"company", "notes", "id", "type"}
          /\ TextMatch(entity[searchFields[i]], search, caseSensitive)

\* the strings entities are sorted by, in the order of localeCompare
Collation == <<"", "a", "A version", "Acme", "b", "B version", "New", "Renamed">>

\* a.localeCompare(b)
LocaleCompare(a, b) ==
    LET At(s) == CHOOSE i \in 1..Len(Collation) : Collation[i] = s
    IN  IF At(a) < At(b) THEN -1 ELSE IF At(a) > At(b) THEN 1 ELSE 0

\* the fields that hold Date objects
DateFields == {"createdAt", "updatedAt"}

RECURSIVE CompareEntities(_, _, _)
\* the comparator of sortEntities for two entity objects a and b. A field that is
\* absent is undefined; the Date objects of two entities are distinct objects, so
\* === is false for them even when they hold the same time
CompareEntities(a, b, sort) ==
    LET field == Head(sort).field
        asc == Head(sort).direction = "asc"
        Directed(cmp) == IF asc THEN cmp ELSE -cmp
    IN  IF sort = <<>> THEN 0
        ELSE IF field \notin DOMAIN a /\ field \notin DOMAIN b
        THEN CompareEntities(a, b, Tail(sort))
        ELSE IF field \notin DOMAIN a THEN (IF asc THEN 1 ELSE -1)
        ELSE IF field \notin DOMAIN b THEN (IF asc THEN -1 ELSE 1)
        ELSE IF field \in DateFields THEN Directed(a[field] - b[field])
        ELSE IF a[field] = b[field] THEN CompareEntities(a, b, Tail(sort))
        ELSE Directed(LocaleCompare(a[field], b[field]))

RECURSIVE SortEntities(_, _)
\* [...entities].sort(comparator): the sort is stable, each entity goes before the
\* first already placed entity the comparator puts it in front of
SortEntities(entities, sort) ==
    LET Insert(sorted, e) ==
            LET Behind(k) == CompareEntities(e, sorted[k], sort) < 0
                At(p) == SubSeq(sorted, 1, p - 1) \o <<e>> \o SubSeq(sorted, p, Len(sorted))
            IN  IF \E k \in 1..Len(sorted) : Behind(k)
                THEN At(CHOOSE k \in 1..Len(sorted) : Behind(k) /\ \A j \in 1..(k - 1) : ~Behind(j))
                ELSE Append(sorted, e)
    IN  IF entities = <<>> THEN <<>>
        ELSE Insert(SortEntities(SubSeq(entities, 1, Len(entities) - 1), sort),
                    entities[Len(entities)])

RECURSIVE ConcatAll(_, _, _)
\* lists[from] concat ... concat lists[to]
ConcatAll(lists, from, to) ==
    IF from > to THEN <<>>
    ELSE IF from = to THEN lists[from]
    ELSE ConcatAll(lists, from, (from + to) \div 2)
         \o ConcatAll(lists, ((from + to) \div 2) + 1, to)

\* the entities search collects: for (t of types) for (ns of namespaces)
\* allEntities = allEntities.concat(await provider.getAll(t, ns)); a getAll that
\* throws ends the search with its error. The reads leave the provider as it is, so
\* the result of getAll for a pair that comes again is the one computed before
CollectEntities(w, types, namespaces) ==
    LET Of(results, n) ==
            LET ResultAt(k) ==
                    (CHOOSE r \in results :
                        r[1] = <<types[((k - 1) \div n) + 1], namespaces[((k - 1) % n) + 1]>>)[2]
            IN  IF \E r \in results : r[2].outcome # "ok"
                THEN [outcome |-> ResultAt(CHOOSE k \in 1..(Len(types) * n) :
                                            /\ ResultAt(k).outcome # "ok"
                                            /\ \A j \in 1..(k - 1) : ResultAt(j).outcome = "ok"
                                 ).outcome,
                      value |-> Undefined]
                ELSE Ok(ConcatAll([k \in 1..(Len(types) * n) |-> ResultAt(k).value],
                                  1, Len(types) * n))
    IN  CHOOSE collected \in
            {Of(results, n) :
                results \in {{<<p, ProviderGetAll(w, p[1], p[2])>> :
                                 p \in Range(types) \X Range(namespaces)}},
                n \in {Len(namespaces)}} : TRUE

\* options of search are objects: a key that is absent was not given. type and
\* namespace are given as lists
OptionOr(options, key, default) == IF key \in DOMAIN options THEN options[key] ELSE default

\* search(options) of a context whose defaultNamespace is ctx.defaultNamespace
ApiSearch(w, ctx, options) ==
    LET limit == OptionOr(options, "limit", 0)
        offset == OptionOr(options, "offset", 0)
        Page(sorted) ==
            [outcome |-> "ok",
             value |-> [items |-> IF limit # 0
                                  THEN SliceTo(SliceFrom(sorted, offset), limit)
                                  ELSE SliceFrom(sorted, offset),
                        total |-> Len(sorted),
                        hasMore |-> IF limit # 0 THEN offset + limit < Len(sorted) ELSE FALSE]]
        Filtered(allEntities, ids, search) ==
            SelectSeq(allEntities,
                      LAMBDA e :
                          /\ ids # {} => e.id \in ids
                          /\ search # "" =>
                                 MatchesSearch(e, search, OptionOr(options, "searchFields", <<>>),
                                               OptionOr(options, "caseSensitive", FALSE)))
        From(collected, ids, search) ==
            IF collected.outcome # "ok" THEN collected
            ELSE IF OverCap(Len(collected.value))
            THEN [outcome |-> "StorageAccessError", value |-> Undefined]
            ELSE Page(SortEntities(Filtered(collected.value, ids, search),
                                   OptionOr(options, "sort",
                                            << [field |-> "name", direction |-> "asc"] >>)))
    IN  CHOOSE result \in
            {From(collected, ids, search) :
                collected \in {CollectEntities(w, OptionOr(options, "type", <<"person">>),
                                               OptionOr(options, "namespace",
                                                        <<ctx.defaultNamespace>>))},
                ids \in {Range(OptionOr(options, "ids", <<>>))},
                search \in {OptionOr(options, "search", "")}} : TRUE

(* ---------------- multi-namespace reads (createMultiNamespaceContext) ---------------- *)

RECURSIVE GetFromAny(_, _, _, _)
\* getFromAny(type, id): the first of `readable` whose provider.get returns an entity
GetFromAny(w, readable, type, id) ==
    LET Got(r) ==
            IF r.outcome # "ok" THEN [outcome |-> r.outcome, value |-> Undefined]
            ELSE IF r.value # Undefined
            THEN Ok([entity |-> r.value, namespace |-> Head(readable)])
            ELSE GetFromAny(w, Tail(readable), type, id)
    IN  IF readable = <<>> THEN Ok(Undefined)
        ELSE Got(ProviderGet(w, type, id, Head(readable)))

RECURSIVE MergeReversed(_, _, _, _)
\* the loop of getAllMerged over [...readable].reverse(): byId after the namespaces
\* readable[n], ..., readable[1]
MergeReversed(w, readable, type, n) ==
    IF n = 0 THEN <<>>
    ELSE MapSetAll(MergeReversed(w, SubSeq(readable, 2, Len(readable)), type, n - 1),
                   ProviderGetAll(w, type, readable[1]).value)

\* getAllMerged(type)
GetAllMerged(w, readable, type) ==
    Ok(MapValues(MergeReversed(w, readable, type, Len(readable))))

RECURSIVE LocateEntity(_, _, _, _)
\* locateEntity(type, id): the first of `readable` for which provider.exists is true
LocateEntity(w, readable, type, id) ==
    IF readable = <<>> THEN Ok(Undefined)
    ELSE IF ProviderExists(w, type, id, Head(readable)).value
    THEN Ok([namespace |-> Head(readable)])
    ELSE LocateEntity(w, Tail(readable), type, id)

(* ---------------- the context API over the memory and the filesystem provider ---------------- *)

\* createContext({ provider, registry, schemas })
RootContext == [defaultNamespace |-> UNDEF]

\* ctx.withNamespace('work')
WorkContext == [defaultNamespace |-> "work"]

\* createMultiNamespaceContext({ api: ctx, resolver }, namespaces)
MultiContext(namespaces) == [defaultNamespace |-> UNDEF, requested |-> [list |-> namespaces]]

\* the contexts the callers use: the last one is a multi-namespace context over two
\* spellings of one directory name
Contexts == {RootContext, WorkContext, MultiContext(<<"./work", "work">>)}

\* options of create: the id is given
WithId == [id |-> "a", namespace |-> UNDEF, generateUniqueId |-> TRUE]

\* a memory provider without initialData, or a filesystem provider over the fixture
InitApi ==
    /\ backend \in {"memory", "filesystem"}
    /\ readonly \in BOOLEAN
    /\ clock = 0
    /\ last = NoCall
    /\ callerRefs = <<>>
    /\ PersonRegistered
    /\ fs = IF backend = "memory" THEN BareDisk ELSE FixtureDisk
    /\ dirs = DirsOf(fs)
    /\ heap = EmptyHeap
    /\ store = <<>>

\* the keys the callers read and delete
ApiKeys == (Contexts \X {"person"} \X {"a"} \X {UNDEF}) \cup {<<RootContext, "ghost", "a", UNDEF>>}

NextApi ==
    \/ Tick
    \/ Save({EntityA} \X {UNDEF, "./work"})
    \/ Create({RootContext, MultiContext(<<"./work", "work">>)} \X {"person"}
                \X {[name |-> "New"]} \X {WithId})
    \/ Update(Contexts \X {"person"} \X {"a"} \X {[name |-> "Renamed"]} \X {UNDEF}
              \cup {<<RootContext, "ghost", "a", [name |-> "Renamed"], UNDEF>>})
    \/ Upsert({RootContext, MultiContext(<<"./work", "work">>)} \X {"person"}
                \X {[id |-> "a", name |-> "New"]} \X {UNDEF})
    \/ Get(Through({RootContext} \X {"person", "ghost"} \X {"a"} \X {UNDEF}))
    \/ Delete(Through(ApiKeys))

SpecApi == InitApi /\ [][NextApi]_vars

(* ---------------- resolver, multi-namespace reads and search over a filesystem
   provider whose namespaces hold hand-written files ---------------- *)

\* the namespaces the files are in
QueryNamespaces == <<"work", "home">>

\* the file <id>.yaml of namespace ns
NamespaceFile(ns, id) == GetEntityPath(FileSystemProvider(BasePath, FALSE, TRUE), "person", id, ns)

\* the record of a file written at time t: a works at Acme, b has no company
RecordAt(id, t) ==
    IF id = "a"
    THEN YamlObject([id |-> "a", name |-> "New", company |-> "Acme",
                     createdAt |-> t, updatedAt |-> t])
    ELSE YamlObject([id |-> id, name |-> "A version", createdAt |-> t, updatedAt |-> t])

\* the disks a behaviour can start from: the default namespace holds a; in every
\* namespace a.yaml is absent, unparseable or a record, and in the first one b.yaml
\* is absent or a record
QueryDisks ==
    LET slots == (Range(QueryNamespaces) \X Ids) \ {<<QueryNamespaces[2], "b">>}
        choices(s) == {"absent"} \cup (IF s[2] = "a" THEN {"corrupt"} ELSE {})
                        \cup {ToString(t) : t \in 0..MaxClock}
        timeOf(c) == CHOOSE t \in 0..MaxClock : ToString(t) = c
        fileOf(c) == {NamespaceFile(s[1], s[2]) : s \in {t \in slots : c[t] # "absent"}}
        slotOf(q) == CHOOSE s \in slots : NamespaceFile(s[1], s[2]) = q
        content(s, c) == IF c = "corrupt" THEN CorruptYaml ELSE RecordAt(s[2], timeOf(c))
    IN  { [q \in fileOf(c) \cup {ReadmePath, PersonFile(1, "a")} |->
             IF q = ReadmePath THEN Readme
             ELSE IF q = PersonFile(1, "a") THEN HandWritten(1, "a", "own")
             ELSE content(slotOf(q), c[slotOf(q)])] :
          c \in {f \in [slots -> {"absent", "corrupt"} \cup {ToString(t) : t \in 0..MaxClock}] :
                    \A s \in slots : f[s] \in choices(s)} }

InitQuery ==
    /\ backend = "filesystem"
    /\ readonly = FALSE
    /\ clock = 0
    /\ last = NoCall
    /\ callerRefs = <<>>
    /\ PersonRegistered
    /\ fs \in QueryDisks
    /\ dirs = DirsOf(fs)
    /\ heap = EmptyHeap
    /\ store = <<>>

\* resolver.resolve(requested)
ResolveRequest(requests) ==
    \E requested \in requests :
        Read([op |-> "resolve", requested |-> requested], Ok(Resolve(requested)))

\* the multi-namespace contexts of the callers
QueryContexts == {MultiContext(QueryNamespaces), MultiContext(<<"home", "work">>)}

\* multi.getFromAny(type, id), multi.locateEntity(type, id): <<ctx, type, id>>
GetFromAnyCall(args) ==
    \E a \in args :
        Read([op |-> "getFromAny", ctx |-> a[1], type |-> a[2], id |-> a[3]],
             GetFromAny(World, Resolve(a[1].requested).readable, a[2], a[3]))

LocateEntityCall(args) ==
    \E a \in args :
        Read([op |-> "locateEntity", ctx |-> a[1], type |-> a[2], id |-> a[3]],
             LocateEntity(World, Resolve(a[1].requested).readable, a[2], a[3]))

\* multi.getAllMerged(type): <<ctx, type>>
GetAllMergedCall(args) ==
    \E a \in args :
        Read([op |-> "getAllMerged", ctx |-> a[1], type |-> a[2]],
             GetAllMerged(World, Resolve(a[1].requested).readable, a[2]))

\* ctx.search(options): <<ctx, options>>; the list that is sorted stays within MaxSorted
Search(args) ==
    \E a \in args :
        \E r \in {ApiSearch(World, a[1], a[2])} :
            /\ r.outcome = "ok" => r.value.total <= MaxSorted
            /\ Read([op |-> "search", ctx |-> a[1], options |-> a[2]], r)

\* ctx.quickSearch(query, options): <<ctx, query, options>>; search({ ...options,
\* search: query }) and then result.items
QuickSearch(args) ==
    \E a \in args :
        \E r \in {ApiSearch(World, a[1], Spread(a[3], [search |-> a[2]]))} :
            /\ r.outcome = "ok" => r.value.total <= MaxSorted
            /\ Read([op |-> "quickSearch", ctx |-> a[1], query |-> a[2], options |-> a[3]],
                    IF r.outcome = "ok" THEN Ok(r.value.items) ELSE r)

\* the options of the searches: pages, sort keys, filters, types
Everywhere == [type |-> <<"person">>, namespace |-> QueryNamespaces]

PageOptions ==
    {Spread(Everywhere, [offset |-> o]) : o \in 0..MaxPage}
    \cup {Spread(Everywhere, [offset |-> o, limit |-> l]) : o \in 0..MaxPage, l \in 0..MaxPage}

SortOptions ==
    {Spread(Everywhere, [sort |-> s]) :
        s \in {<< [field |-> "createdAt", direction |-> "asc"],
                  [field |-> "name", direction |-> "asc"] >>,
               << [field |-> "name", direction |-> "asc"],
                  [field |-> "createdAt", direction |-> "desc"] >>,
               << [field |-> "company", direction |-> "asc"] >>,
               << [field |-> "company", direction |-> "desc"],
                  [field |-> "name", direction |-> "desc"] >>}}

FilterOptions ==
    {Spread(Everywhere, [ids |-> <<"a">>]),
     Spread(Everywhere, [search |-> "new"]),
     Spread(Everywhere, [search |-> "new", caseSensitive |-> TRUE]),
     Spread(Everywhere, [search |-> "acme", searchFields |-> <<"company">>])}

TypeOptions ==
    {[type |-> <<"ghost", "person">>, namespace |-> QueryNamespaces],
     [type |-> <<"ghost">>, namespace |-> QueryNamespaces],
     [ids |-> <<>>]}

SearchOptions == PageOptions \cup SortOptions \cup FilterOptions \cup TypeOptions

\* the requests handed to the resolver
Requests ==
    {Undefined, [string |-> ""], [string |-> "work"]}
    \cup {[list |-> l] : l \in {<<>>, <<"">>, <<"", "work">>, <<"work", "work">>,
                                QueryNamespaces, <<"archive", "work">>}}

\* the keys the multi-namespace contexts are asked for
MultiKeys ==
    (QueryContexts \X {"person"} \X Ids) \cup {<<MultiContext(QueryNamespaces), "ghost", "a">>}

NextQuery ==
    \/ ResolveRequest(Requests)
    \/ GetFromAnyCall(MultiKeys)
    \/ LocateEntityCall(MultiKeys)
    \/ GetAllMergedCall(QueryContexts \X {"person"} \cup {<<MultiContext(QueryNamespaces), "ghost">>})
    \/ Search({RootContext} \X SearchOptions \cup {<<WorkContext, [ids |-> <<>>]>>}
              \cup QueryContexts \X {[type |-> <<"person">>]})
    \/ QuickSearch((QueryContexts \cup {WorkContext}) \X {"new", "version"}
                      \X {[type |-> <<"person">>]})
    \/ GetAll({<<"ghost", "work">>, <<"person", "work">>})
    \/ Find({[NoFilter EXCEPT !.type = "ghost", !.namespace = "work"],
             [NoFilter EXCEPT !.type = "person", !.namespace = "work"]})
    \/ Count({[NoFilter EXCEPT !.type = "ghost", !.namespace = "work"],
              [NoFilter EXCEPT !.type = "person", !.namespace = "work"]})

SpecQuery == InitQuery /\ [][NextQuery]_vars

(* ---------------- search at the cap: namespace lists that name one namespace
   thousands of times ---------------- *)

\* the namespace list that names 'work' n times and then 'home'
Repeated(n) == [i \in 1..(n + 1) |-> IF i <= n THEN "work" ELSE "home"]

\* the disks a behaviour can start from: 'work' holds a and b, and 'home' holds any
\* of new and new-2, written at any time
CapDisks ==
    LET homeIds == {"new", Suffixed("new", 2)}
        Disk(c) ==
            [q \in {NamespaceFile("work", id) : id \in Ids}
                     \cup {NamespaceFile("home", id) : id \in {i \in homeIds : c[i] >= 0}}
                     \cup {ReadmePath} |->
                IF q = ReadmePath THEN Readme
                ELSE IF \E id \in Ids : q = NamespaceFile("work", id)
                THEN RecordAt(CHOOSE id \in Ids : q = NamespaceFile("work", id), 0)
                ELSE LET id == CHOOSE i \in homeIds : q = NamespaceFile("home", i)
                     IN  RecordAt(id, c[id])]
    IN  {Disk(c) : c \in [homeIds -> -1..MaxClock]}

InitCap ==
    /\ backend = "filesystem"
    /\ readonly = FALSE
    /\ clock = 0
    /\ last = NoCall
    /\ callerRefs = <<>>
    /\ PersonRegistered
    /\ fs \in CapDisks
    /\ dirs = DirsOf(fs)
    /\ heap = EmptyHeap
    /\ store = <<>>

\* searches that collect MAX_SEARCH_ENTITIES entities from 'work' before they come
\* to 'home', each with a filter only entities of 'home' pass
CapOptions ==
    {[type |-> <<"person">>, namespace |-> Repeated(MAX_SEARCH_ENTITIES \div 2),
      ids |-> <<"new", Suffixed("new", 2)>>],
     [type |-> <<"person", "person">>, namespace |-> Repeated(MAX_SEARCH_ENTITIES \div 4),
      ids |-> <<"new">>],
     [type |-> <<"person">>, namespace |-> Repeated((MAX_SEARCH_ENTITIES \div 2) - 1),
      ids |-> <<Suffixed("new", 2)>>, limit |-> 1]}

\* searches that collect a few entities
FewOptions ==
    {Spread([type |-> <<"person">>, namespace |-> Repeated(n)], page) :
        n \in 0..2, page \in {[offset |-> 0], [offset |-> 1, limit |-> MaxPage],
                               [ids |-> <<"new">>], [search |-> "version"]}}

NextCap ==
    \/ Search({RootContext} \X (CapOptions \cup FewOptions))

SpecCap == InitCap /\ [][NextCap]_vars

(* ---------------- the observable provider over the memory and the filesystem
   provider ---------------- *)

\* observable.save(entity, namespace)
ObservedSave(args) ==
    \E a \in args :
        \E r \in {ObservableSave(World, a[1], a[2], clock)} :
            CommitObserved([op |-> "save", entity |-> a[1], type |-> a[1].type,
                            id |-> a[1].id, namespace |-> a[2]], r)

\* observable.delete(type, id, namespace)
ObservedDelete(args) ==
    \E a \in args :
        \E r \in {ObservableDelete(World, a[1], a[2], a[3], clock)} :
            CommitObserved([op |-> "delete", type |-> a[1], id |-> a[2],
                            namespace |-> a[3]], r)

\* observable.saveBatch(entities, namespace)
ObservedSaveBatch(args) ==
    \E a \in args :
        \E r \in {ObservableSaveBatch(World, a[1], a[2], clock)} :
            CommitObserved([op |-> "saveBatch", entities |-> a[1], namespace |-> a[2]], r)

\* observable.deleteBatch(refs, namespace)
ObservedDeleteBatch(args) ==
    \E a \in args :
        \E r \in {ObservableDeleteBatch(World, a[1], a[2], clock)} :
            CommitObserved([op |-> "deleteBatch", refs |-> a[1], namespace |-> a[2]], r)

\* a call that leaves the provider alone and emits nothing
Subscription(call) ==
    /\ last' = Spread(call, [outcome |-> "ok", value |-> Undefined])
    /\ emitted' = <<>>
    /\ delivered' = <<>>
    /\ UNCHANGED <<contextRoot, backend, readonly, fs, dirs, clock, store, heap, callerRefs,
                   schemas, directoryToType, inflight>>

\* observable.subscribe(handler): handlers.add(handler)
Subscribe(hs) ==
    \E h \in hs :
        /\ handlers' = IF h \in Range(handlers) THEN handlers ELSE Append(handlers, h)
        /\ Subscription([op |-> "subscribe", handler |-> h])

\* the function subscribe(handler) returned is called: handlers.delete(handler); the
\* caller calls it while the handler is subscribed
Unsubscribe(hs) ==
    \E h \in hs :
        /\ h \in Range(handlers)
        /\ handlers' = SelectSeq(handlers, LAMBDA x : x # h)
        /\ Subscription([op |-> "unsubscribe", handler |-> h])

\* the disks of the wrapped filesystem provider: a.yaml of <basePath>/people is
\* absent or holds any hand-written content
ObservedDisks == {f \in ScanDisks : DOMAIN f \subseteq {PersonFile(1, "a"), Append(PeopleDir(1), "README.md")}}

\* createObservableProvider(provider) over a memory or a filesystem provider
InitObserved ==
    /\ backend \in {"memory", "filesystem"}
    /\ readonly \in BOOLEAN
    /\ clock = 0
    /\ last = NoCall
    /\ callerRefs = <<>>
    /\ PersonRegistered
    /\ IF backend = "memory"
       THEN /\ fs = BareDisk
            /\ \E initialData \in InitialDatas :
                  LET objects == NewObjects(EmptyHeap, initialData)
                  IN  /\ heap = objects.heap
                      /\ store = CreateMemoryProvider(<<>>, objects.heap, objects.refs)
       ELSE /\ fs \in ObservedDisks
            /\ heap = EmptyHeap
            /\ store = <<>>
    /\ dirs = DirsOf(fs)

\* the handlers of the callers
Handlers == {Log, Thrower, Remover}

NextObserved ==
    \/ ObservedSave({<<EntityA, UNDEF>>, <<EntityB, UNDEF>>, <<EmptyName, UNDEF>>,
                     <<UnknownType, UNDEF>>})
    \/ ObservedDelete({<<"person", "a", UNDEF>>, <<"person", "b", UNDEF>>,
                       <<"ghost", "a", UNDEF>>})
    \/ ObservedSaveBatch(SaveBatches \X {UNDEF})
    \/ ObservedDeleteBatch(RefBatches \X {UNDEF})
    \/ Subscribe(Handlers)
    \/ Unsubscribe(Handlers)

SpecObserved == InitObserved /\ [][NextObserved]_vars

(* ---------------- a memory and a filesystem provider given the same calls ---------------- *)

\* createMemoryProvider({ registry }) and createFileSystemProvider({ basePath,
\* registry }) over an empty directory
InitBoth ==
    /\ backend = "both"
    /\ readonly \in BOOLEAN
    /\ clock = 0
    /\ last = NoCall
    /\ callerRefs = <<>>
    /\ PersonRegistered
    /\ fs = BareDisk
    /\ dirs = DirsOf(fs)
    /\ heap = EmptyHeap
    /\ store = <<>>

NextBoth ==
    \/ Tick
    \/ Save((ValidEntities \cup {EmptyName}) \X {UNDEF})
    \/ Delete({"person"} \X Ids \X {UNDEF})
    \/ SaveBatch(SaveBatches \X {UNDEF})
    \/ DeleteBatch(RefBatches \X {UNDEF})

SpecBoth == InitBoth /\ [][NextBoth]_vars

(* ---------------- calls that overlap: create of the context API and save of the
   observable provider, one step per await ---------------- *)

\* the callers whose calls can overlap
Callers == 1..2

\* a caller with no call in flight
NotCalling == [pc |-> "none"]

\* caller p's call has reached an await; r is the result of the provider call it
\* awaits (outcome, value, world afterwards) and frame holds the locals it goes on with
Await(p, r, frame) ==
    /\ ObservedStep([op |-> "await", caller |-> p, of |-> frame.op],
                    Spread(r, [events |-> <<>>]))
    /\ inflight' = [inflight EXCEPT ![p] = frame]

\* caller p's call has returned with result r (outcome, value, world afterwards,
\* events passed to emit)
Return(p, call, r, frame) ==
    /\ ObservedStep(Spread(call, [caller |-> p]), r)
    /\ inflight' = [inflight EXCEPT ![p] = Spread(frame, [pc |-> "returned",
                                                          outcome |-> r.outcome,
                                                          events |-> r.events])]

\* options of create: no id given, generateUniqueId left at its default
Generated == [id |-> UNDEF, namespace |-> UNDEF, generateUniqueId |-> TRUE]

\* ctx.create(type, data) is called: it runs up to the first await of
\* generateUniqueId, on exists(slugify(data.name))
CreateCalled(p, args) ==
    \E a \in args :
        LET ns == ContextNamespace(a[1], Generated.namespace)
            baseId == Slugify(a[3].name)
        IN  /\ inflight[p].pc \in {"none", "returned"}
            /\ \E r \in {ProviderExists(World, a[2], baseId, ns)} :
                  Await(p, r, [op |-> "create", pc |-> IF r.value THEN "exists" ELSE "save",
                               type |-> a[2], data |-> a[3], namespace |-> ns,
                               id |-> baseId, i |-> 2])

\* the loop of generateUniqueId goes on after an await: it asks exists about
\* `${baseId}-${i}`, and after i = 100 takes `${baseId}-${Date.now()}`; the ids stay
\* within GeneratedIds
CreateExists(p) ==
    LET f == inflight[p]
        candidateId == Suffixed(Slugify(f.data.name), f.i)
        After(r) ==
            IF ~r.value THEN [f EXCEPT !.pc = "save", !.id = candidateId]
            ELSE IF f.i < 100 THEN [f EXCEPT !.i = f.i + 1]
            ELSE [f EXCEPT !.pc = "save", !.id = Suffixed(Slugify(f.data.name), clock)]
    IN  /\ f.pc = "exists"
        /\ candidateId \in GeneratedIds
        /\ \E r \in {ProviderExists(World, f.type, candidateId, f.namespace)} :
              Await(p, r, After(r))

\* create goes on after generateUniqueId: it builds the entity and calls provider.save
CreateSaved(p) ==
    LET f == inflight[p]
        entity == Spread(f.data, [id |-> f.id, type |-> f.type,
                                  createdAt |-> clock, updatedAt |-> clock])
    IN  /\ f.pc = "save" /\ f.op = "create"
        /\ \E r \in {ProviderSave(World, entity, f.namespace, clock)} :
              Return(p, [op |-> "create", type |-> f.type, data |-> f.data, id |-> f.id,
                         namespace |-> f.namespace],
                     Spread(r, [events |-> <<>>]), f)

\* observable.save(entity, namespace) is called: it runs up to its first await, on
\* provider.get(entity.type, entity.id, namespace)
ObservedSaveCalled(p, args) ==
    \E a \in args :
        LET call == [op |-> "save", entity |-> a[1], type |-> a[1].type, id |-> a[1].id,
                     namespace |-> a[2]]
            frame == [op |-> "save", pc |-> "save", entity |-> a[1], namespace |-> a[2]]
        IN  /\ inflight[p].pc \in {"none", "returned"}
            /\ \E r \in {ProviderGet(World, a[1].type, a[1].id, a[2])} :
                  IF r.outcome # "ok" THEN Return(p, call, Spread(r, [events |-> <<>>]), frame)
                  ELSE Await(p, r, Spread(frame, [existing |-> r.value]))

\* observable.save goes on after provider.get: it calls provider.save and emits
\* entity:updated or entity:created by what get had returned
ObservedSaveSaved(p) ==
    LET f == inflight[p]
        call == [op |-> "save", entity |-> f.entity, type |-> f.entity.type,
                 id |-> f.entity.id, namespace |-> f.namespace]
        Saved(r) ==
            IF r.outcome # "ok" THEN Spread(r, [events |-> <<>>])
            ELSE Spread(r, [events |-> <<SaveEvent(f.existing, r.value, f.entity,
                                                   f.namespace, clock)>>])
    IN  /\ f.pc = "save" /\ f.op = "save"
        /\ \E r \in {ProviderSave(World, f.entity, f.namespace, clock)} :
              Return(p, call, Saved(r), f)

\* a memory or a filesystem provider that holds nothing yet, wrapped by
\* createObservableProvider, and a context over it; no call has started
InitOverlap ==
    /\ backend \in {"memory", "filesystem"}
    /\ readonly = FALSE
    /\ clock = 0
    /\ last = NoCall
    /\ callerRefs = <<>>
    /\ schemas = << <<"person", [type |-> "person", pluralName |-> "people"]>> >>
    /\ directoryToType = << <<"people", "person">> >>
    /\ handlers = <<Log>>
    /\ emitted = <<>>
    /\ delivered = <<>>
    /\ inflight = [p \in Callers |-> NotCalling]
    /\ contextRoot = Undefined
    /\ fs = BareDisk
    /\ dirs = DirsOf(fs)
    /\ heap = EmptyHeap
    /\ store = <<>>

NextOverlap ==
    \/ \E p \in Callers : CreateCalled(p, {RootContext} \X {"person"} \X {[name |-> "New"]})
    \/ \E p \in Callers : CreateExists(p)
    \/ \E p \in Callers : CreateSaved(p)
    \/ \E p \in Callers : ObservedSaveCalled(p, {<<EntityA, UNDEF>>, <<UnknownType, UNDEF>>})
    \/ \E p \in Callers : ObservedSaveSaved(p)

SpecOverlap == InitOverlap /\ [][NextOverlap]_vars

(* ---------------- directory walker (discovery/walker.ts) and
   discoverContextRoot ---------------- *)

\* a symbolic link to the directory `target`
Symlink(target) == [parse |-> "symlink", body |-> [target |-> target]]

\* fs.realpath(p) when every component of p exists, p itself when one does not
\* (realpath throws and discover falls back to the path it has): components are
\* resolved from the root, a symbolic link is replaced by its target
RECURSIVE RealPathFrom(_, _, _, _)
RealPathFrom(f, d, resolved, rest) ==
    LET At(next) ==
            IF next \in DOMAIN f /\ f[next].parse = "symlink"
            THEN RealPathFrom(f, d, f[next].body.target, Tail(rest))
            ELSE IF next \in d \/ next \in DOMAIN f
            THEN RealPathFrom(f, d, next, Tail(rest))
            ELSE [exists |-> FALSE]
    IN  IF rest = <<>> THEN [exists |-> TRUE, path |-> resolved]
        ELSE At(Append(resolved, Head(rest)))

\* existsSync(p)
ExistsSync(f, d, p) == RealPathFrom(f, d, <<>>, p).exists

\* path.dirname(dir): the root is its own parent
Dirname(dir) == IF dir = <<>> THEN <<>> ELSE SubSeq(dir, 1, Len(dir) - 1)

\* shouldStop(dir)
ShouldStop(options, f, d, dir) ==
    \/ "stopAt" \in DOMAIN options /\ dir = options.stopAt
    \/ \E i \in 1..Len(options.stopMarkers) :
          ExistsSync(f, d, Append(dir, options.stopMarkers[i]))
    \/ Dirname(dir) = dir

\* the names readdir can return for a context directory or a directory in it, in
\* the order it returns them
EntryNames == <<"a.yaml", "people", "work">>

\* fs.readdir(dir, { withFileTypes: true }) of an existing directory
Entries(f, d, dir) ==
    SelectSeq(EntryNames, LAMBDA n : Append(dir, n) \in d \/ Append(dir, n) \in DOMAIN f)

RECURSIVE Unique(_, _)
\* the elements of s in the order of their first occurrence: Array.from(new Set(s)),
\* and `if (!types.includes(typeName)) types.push(typeName)`
Unique(s, seen) ==
    IF s = <<>> THEN <<>>
    ELSE IF Head(s) \in seen THEN Unique(Tail(s), seen)
    ELSE <<Head(s)>> \o Unique(Tail(s), seen \cup {Head(s)})

\* getNamespacesAndTypes(contextDir) for the directory contextDir really is, with
\* the registry's Map `directories` (directory name -> type) when options.registry
\* is given
GetNamespacesAndTypes(options, f, d, contextDir, directories) ==
    LET Known(name) == options.registry /\ MapHas(directories, name)
        TypeName(name) == IF Known(name) THEN MapGet(directories, name) ELSE name
        HasYamlFiles(sub) ==
            \E n \in Range(Entries(f, d, sub)) :
                Append(sub, n) \notin d /\ f[Append(sub, n)].parse # "symlink" /\ IsYamlFile(n)
        IsTypeDir(name) ==
            IF options.registry THEN Known(name) ELSE HasYamlFiles(Append(contextDir, name))
        HasTypeDirs(sub) ==
            \E n \in Range(Entries(f, d, sub)) :
                Append(sub, n) \in d /\ (options.registry => Known(n))
        Of(subdirs) ==
            LET TypesOf(typeDirs) ==
                    Unique([i \in 1..Len(typeDirs) |-> TypeName(typeDirs[i])], {})
            IN  [namespaces |-> SelectSeq(subdirs,
                                          LAMBDA n : /\ ~IsTypeDir(n)
                                                     /\ HasTypeDirs(Append(contextDir, n))),
                 types |-> TypesOf(SelectSeq(subdirs, IsTypeDir))]
    IN  IF contextDir \notin d THEN [namespaces |-> <<>>, types |-> <<>>]
        ELSE Of(SelectSeq(Entries(f, d, contextDir), LAMBDA n : Append(contextDir, n) \in d))

RECURSIVE Walk(_, _, _, _, _, _, _, _, _)
\* the loop of discover: `examined` lists the directories whose context directory
\* the loop has looked for
Walk(options, f, d, directories, currentDir, level, visited, discovered, examined) ==
    LET Found(real) ==
            IF ~real.exists THEN discovered
            ELSE Append(discovered,
                        Spread([path |-> Append(currentDir, options.contextDirName),
                                level |-> level],
                               GetNamespacesAndTypes(options, f, d, real.path, directories)))
        Examine(realPath) ==
            IF realPath \in visited
            THEN [discovered |-> discovered, examined |-> examined]
            ELSE IF ShouldStop(options, f, d, currentDir)
            THEN [discovered |->
                      Found(RealPathFrom(f, d, <<>>, Append(currentDir, options.contextDirName))),
                  examined |-> Append(examined, currentDir)]
            ELSE Walk(options, f, d, directories, Dirname(currentDir), level + 1,
                      visited \cup {realPath},
                      Found(RealPathFrom(f, d, <<>>, Append(currentDir, options.contextDirName))),
                      Append(examined, currentDir))
        Resolved(real) == IF real.exists THEN real.path ELSE currentDir
    IN  IF ~(level < options.maxLevels)
        THEN [discovered |-> discovered, examined |-> examined]
        ELSE Examine(Resolved(RealPathFrom(f, d, <<>>, currentDir)))

\* a discover whose loop runs while level <= maxLevels
WalkerDiscoverOneMore(options, f, d, directories) ==
    Walk([options EXCEPT !.maxLevels = @ + 1], f, d, directories, options.startDir, 0,
         {}, <<>>, <<>>)

\* walker.discover() of createDirectoryWalker(options); startDir is absolute
WalkerDiscover(options, f, d, directories) ==
    Walk(options, f, d, directories, options.startDir, 0, {}, <<>>, <<>>)

\* the defaults of discoverContextRoot
DefaultMaxLevels == 10
ProjectMarkers == <<".git", "package.json">>

\* discoverContextRoot(options): startDir and registry are given, contextDirName is
\* 'context'
DiscoverContextRoot(options, f, d, directories) ==
    LET Of(found) ==
            [directories |-> found,
             primary |-> IF found = <<>> THEN Undefined ELSE [path |-> found[1].path],
             contextPaths |-> [i \in 1..Len(found) |-> found[i].path],
             allNamespaces |-> Unique(ConcatAll([i \in 1..Len(found) |-> found[i].namespaces],
                                                1, Len(found)), {}),
             allTypes |-> Unique(ConcatAll([i \in 1..Len(found) |-> found[i].types],
                                           1, Len(found)), {})]
    IN  Of(WalkerDiscover([startDir |-> options.startDir, contextDirName |-> "context",
                           maxLevels |-> OptionOr(options, "maxLevels", DefaultMaxLevels),
                           stopMarkers |-> OptionOr(options, "projectMarkers", ProjectMarkers),
                           registry |-> options.registry],
                          f, d, directories).discovered)

(* ---------------- the walker over directory trees ---------------- *)

\* the directories a walk goes through, from the root down
Workspace == <<"workspace">>
ProjectDir == <<"workspace", "project">>
SrcDir == <<"workspace", "project", "src">>
WalkedDirs == << <<>>, Workspace, ProjectDir, SrcDir >>

\* a symbolic link in the project that points back to its ancestor /workspace
LoopLink == Append(ProjectDir, "loop")

\* the directories and the files of a context directory ctx: none, the bare
\* directory, or people/a.yaml and the namespace work with its people directory
ContextDirs(ctx, kind) ==
    CASE kind = "absent" -> {}
      [] kind = "empty" -> {ctx}
      [] OTHER -> {ctx, Append(ctx, "people"), Append(ctx, "work"), ctx \o <<"work", "people">>}

ContextFiles(ctx, kind) ==
    IF kind = "populated" THEN {ctx \o <<"people", "a.yaml">>} ELSE {}

\* the trees: each walked directory has a context directory or none (the one of src
\* can be bare), the project has a package.json or none and the link or not
WalkerDisks ==
    LET kinds == {c \in [1..Len(WalkedDirs) -> {"absent", "empty", "populated"}] :
                    \A i \in 1..(Len(WalkedDirs) - 1) : c[i] # "empty"}
        marker == Append(ProjectDir, "package.json")
        Ctx(i) == Append(WalkedDirs[i], "context")
        Files(c, m, l) ==
            UNION {ContextFiles(Ctx(i), c[i]) : i \in 1..Len(WalkedDirs)}
            \cup (IF m THEN {marker} ELSE {}) \cup (IF l THEN {LoopLink} ELSE {})
    IN  { [dirs |-> Range(WalkedDirs)
                    \cup UNION {ContextDirs(Ctx(i), c[i]) : i \in 1..Len(WalkedDirs)},
           fs |-> [q \in Files(c, m, l) |->
                      IF q = LoopLink THEN Symlink(Workspace)
                      ELSE IF q = marker THEN Readme
                      ELSE HandWritten(1, "a", "own")]] :
          c \in kinds, m \in BOOLEAN, l \in BOOLEAN }

InitWalker ==
    /\ backend = "filesystem"
    /\ readonly = FALSE
    /\ \E disk \in WalkerDisks : fs = disk.fs /\ dirs = disk.dirs
    /\ clock = 0
    /\ last = NoCall
    /\ store = <<>>
    /\ heap = EmptyHeap
    /\ callerRefs = <<>>
    /\ PersonRegistered

\* where the callers start: in src, in the project, at the link, and in the
\* project as the link leads to it
StartDirs == {SrcDir, ProjectDir, LoopLink, Append(LoopLink, "project")}

\* the options of createDirectoryWalker
WalkerOptions ==
    LET common == [startDir : StartDirs, contextDirName : {"context"},
                   maxLevels : 0..MaxLevels, stopMarkers : {<<>>}, registry : {FALSE}]
                  \cup [startDir : StartDirs, contextDirName : {"context"},
                         maxLevels : 0..MaxLevels, stopMarkers : {<<"package.json">>},
                         registry : {TRUE}]
    IN  common \cup {Spread(o, [stopAt |-> Workspace]) : o \in common}

\* the options of discoverContextRoot
ContextRootOptions ==
    [startDir : StartDirs, registry : {TRUE}]
    \cup [startDir : StartDirs, registry : {TRUE}, maxLevels : {MaxLevels},
          projectMarkers : {<<>>}]

\* walker.discover()
Discover(optionsSet) ==
    \E o \in optionsSet :
        \E r \in {WalkerDiscover(o, fs, dirs, directoryToType)} :
            Read([op |-> "discover", options |-> o, examined |-> r.examined],
                 Ok(r.discovered))

\* discoverContextRoot(options)
DiscoverRoot(optionsSet) ==
    \E o \in optionsSet :
        Read([op |-> "discoverContextRoot", options |-> o],
             Ok(DiscoverContextRoot(o, fs, dirs, directoryToType)))

NextWalker ==
    \/ Discover(WalkerOptions)
    \/ DiscoverRoot(ContextRootOptions)

SpecWalker == InitWalker /\ [][NextWalker]_vars

(* ---------------- what the directories hold ---------------- *)

\* the path of <id>.yaml of `type` in namespace ns of context directory i, spelled out
\* as <contextPath>/[<namespace>/]<pluralName>/<id>.yaml for well-formed names
RecordPath(i, type, id, ns) ==
    ContextPaths[i] \o (IF ns = UNDEF THEN <<>> ELSE <<ns>>)
        \o <<GetDirectoryName(type), WithExtension(id)>>

\* the valid records of `type` that context directory i stores in namespace ns
ValidRecords(f, i, type, ns) ==
    {ReadEntity(f, RecordPath(i, type, id, ns), type) : id \in Ids} \ {Undefined}

\* context directory i stores a valid record whose id is `id`
HoldsRecordOf(f, i, type, id, ns) ==
    \E e \in ValidRecords(f, i, type, ns) : e.id = id

\* context directory i stores a valid record in the file <id>.yaml
HoldsFile(f, i, type, id, ns) ==
    ReadEntity(f, RecordPath(i, type, id, ns), type) # Undefined

\* the closest context directory for which Holds(i) is true
Closest(Holds(_)) ==
    CHOOSE i \in 1..Len(ContextPaths) :
        Holds(i) /\ \A j \in 1..(i - 1) : ~Holds(j)

(* ---------------- hierarchical provider: the claims ---------------- *)

\* C1: getAll(type, namespace) of the hierarchical provider returns exactly one entity
\* per id of which some context directory holds a valid record, and that entity is a
\* record of the closest (lowest index) context directory that holds one of that id.
C1_GetAllClosestWins ==
    \A type \in Types, ns \in Namespaces :
        LET result == HierGetAll(fs, dirs, type, ns)
            held == {id \in Ids : \E i \in 1..Len(ContextPaths) :
                                      HoldsRecordOf(fs, i, type, id, ns)}
        IN  /\ \A j, k \in 1..Len(result) : result[j].id = result[k].id => j = k
            /\ {result[j].id : j \in 1..Len(result)} = held
            /\ \A j \in 1..Len(result) :
                  LET H(i) == HoldsRecordOf(fs, i, type, result[j].id, ns)
                  IN  result[j] \in ValidRecords(fs, Closest(H), type, ns)

\* C1 witness: getAll was called while both context directories hold a record of id
\* "a" with different names, and the closest one's version was returned
C1_Witness ==
    /\ last.op = "getAll" /\ last.type = "person"
    /\ HoldsRecordOf(fs, 1, "person", "a", UNDEF)
    /\ HoldsRecordOf(fs, 2, "person", "a", UNDEF)
    /\ \E j \in 1..Len(last.value) :
          last.value[j].id = "a" /\ last.value[j].name = "A version"
    /\ Len(last.value) = 2

\* the slice [offset, offset + limit) of a list; a limit of 0 is no limit
PageOf(list, filter) ==
    SubSeq(list, filter.offset + 1,
           IF filter.limit = 0 \/ filter.offset + filter.limit > Len(list)
           THEN Len(list) ELSE filter.offset + filter.limit)

\* every record of the disk carries the id of its file
IdsMatchFileNames(f) ==
    \A i \in 1..Len(ContextPaths), id \in Ids :
        LET q == RecordPath(i, "person", id, UNDEF)
        IN  (q \in DOMAIN f /\ f[q].parse = "object" /\ "id" \in DOMAIN f[q].body)
                => f[q].body.id = id

\* C3: find(filter) of the hierarchical provider returns the slice
\* [offset, offset + limit) of the merged, id-deduplicated, closest-wins list of the
\* entities that match the filter in all context directories (merge, then paginate
\* once); stated for the find calls made on disks whose records carry their file's id.
C3_FindMergeThenPaginate ==
    (last.op = "find" /\ IdsMatchFileNames(fs)) =>
        last.value
            = PageOf(HierFind(fs, dirs, [last.filter EXCEPT !.offset = 0, !.limit = 0]),
                     last.filter)

\* C4: get(type, id, namespace) of the hierarchical provider returns the record of the
\* closest context directory that holds a valid record in <id>.yaml, and undefined
\* only when no context directory holds one.
C4_GetClosestFirst ==
    \A type \in RegisteredTypes, id \in Ids, ns \in Namespaces :
        LET r == HierGet(fs, type, id, ns)
            H(i) == HoldsFile(fs, i, type, id, ns)
        IN  /\ r.outcome = "ok"
            /\ IF \E i \in 1..Len(ContextPaths) : H(i)
               THEN r.value = ReadEntity(fs, RecordPath(Closest(H), type, id, ns), type)
               ELSE r.value = Undefined

\* C4 witness: get was called for an id that both context directories hold, and
\* for an id only the distant one holds
C4_Witness ==
    /\ last.op = "get" /\ last.type = "person" /\ last.id = "a"
    /\ HoldsFile(fs, 1, "person", "a", UNDEF) /\ HoldsFile(fs, 2, "person", "a", UNDEF)
    /\ last.value # Undefined /\ last.value.name = "A version"
    /\ ~HoldsFile(fs, 1, "person", "b", UNDEF) /\ HoldsFile(fs, 2, "person", "b", UNDEF)

\* a step that is a completed delete call of the hierarchical provider
DeleteStep ==
    /\ last'.op = "delete" /\ last'.outcome = "ok"
    /\ last'.id \in Ids /\ last'.namespace \in Namespaces

WriteOps == {"save", "delete", "saveBatch", "deleteBatch"}

\* the files under the directory `base` are the same files with the same contents
\* before and after the step
SameUnder(base) ==
    \A q \in (DOMAIN fs) \cup (DOMAIN fs') :
        IsUnder(q, base) => (q \in DOMAIN fs /\ q \in DOMAIN fs' /\ fs'[q] = fs[q])

\* C2: a save, delete, saveBatch or deleteBatch call through the hierarchical provider
\* leaves the contents of every context directory other than the primary one exactly
\* as they were before the call.
C2_WritesOnlyTouchPrimary ==
    [][(backend = "hierarchical" /\ last'.op \in WriteOps) =>
          \A i \in 2..Len(ContextPaths) : SameUnder(ContextPaths[i])
      ]_vars

\* the id or the namespace of a call contains a path separator or ..
Traverses(call) ==
    \/ ("id" \in DOMAIN call /\ call.id = TraversalId)
    \/ ("namespace" \in DOMAIN call /\ call.namespace \in TraversalNamespaces)

\* the access / validation class of errors
AccessErrors == {"StorageAccessError", "ValidationError"}

\* the entities a read returned
Returned(call) ==
    IF call.op = "get" /\ call.outcome = "ok" /\ call.value # Undefined THEN {call.value}
    ELSE IF call.op = "getAll" THEN Range(call.value)
    ELSE {}

\* C6: every get, exists, getAll, save and delete of the filesystem provider called with
\* an id or namespace that contains a path separator or .. fails with an access or
\* validation error, and no call reads, writes, creates or deletes a path outside
\* basePath.
C6_TraversalRejected ==
    [][backend = "filesystem" =>
          /\ Traverses(last') => last'.outcome \in AccessErrors
          /\ \A q \in (DOMAIN fs) \cup (DOMAIN fs') :
                ~IsUnder(q, BasePath) =>
                    (q \in DOMAIN fs /\ q \in DOMAIN fs' /\ fs'[q] = fs[q])
          /\ \A d \in dirs' \ dirs : IsUnder(d, BasePath)
          /\ \A e \in Returned(last') : IsUnder(e.source, BasePath)
      ]_vars

\* what the memory provider stores, by value
StoreValue(st, h) ==
    [i \in 1..Len(st) |->
        <<st[i][1],
          [j \in 1..Len(st[i][2]) |->
              <<st[i][2][j][1],
                [k \in 1..Len(st[i][2][j][2]) |->
                    <<st[i][2][j][2][k][1], Deref(h, st[i][2][j][2][k][2])>>]>>]>>]

\* the stored state of all providers: files, directories, stored entities
StoredState == <<fs, dirs, StoreValue(store, heap)>>

\* C7: on a provider created with readonly = true, every save, delete, saveBatch and
\* deleteBatch call, whatever its arguments, rejects with ReadonlyStorageError and
\* leaves the stored state unchanged.
C7_ReadonlyRejectsEveryWrite ==
    [][(readonly /\ last'.op \in WriteOps) =>
          (last'.outcome = "ReadonlyStorageError" /\ StoredState' = StoredState)
      ]_vars

\* a step that is a save call, on the memory or the filesystem provider, of an entity
\* that fails registry validation
InvalidSaveStep ==
    /\ backend \in {"memory", "filesystem"}
    /\ last'.op = "save"
    /\ last'.entity \in InvalidEntities

\* C8 as stated: save of an entity that fails registry validation rejects with
\* ValidationError and leaves storage exactly as it was before the call, on the memory
\* and on the filesystem provider.
C8_InvalidSaveRejectedAlways ==
    [][InvalidSaveStep =>
          (last'.outcome = "ValidationError" /\ StoredState' = StoredState)
      ]_vars

\* C8: save of an entity that fails registry validation leaves storage exactly as it
\* was before the call (no file or directory created, no stored entity changed), on the
\* memory and on the filesystem provider; it rejects with ValidationError when the
\* provider is not readonly, and with ReadonlyStorageError when it is.
C8_InvalidSaveRejected ==
    [][InvalidSaveStep =>
          /\ last'.outcome = (IF readonly THEN "ReadonlyStorageError" ELSE "ValidationError")
          /\ StoredState' = StoredState
      ]_vars

\* C8 witness: a filesystem provider that is not readonly, over a base path that has
\* no people directory yet, rejected the save of an entity with an empty name, and
\* there still is no people directory
C8_Witness ==
    /\ backend = "filesystem" /\ ~readonly
    /\ last.op = "save" /\ last.entity = EmptyName
    /\ last.outcome = "ValidationError"
    /\ PeopleDir(1) \notin dirs
    /\ fs = BareDisk

\* no object the caller holds, and no object nested in one, is an object of the store
\* or nested in one
NoAlias ==
    Reach(heap, Range(callerRefs)) \cap Reach(heap, StoreRefs(store)) = {}

\* what get and getAll return for every key
ReadValues(st, h) ==
    <<[key \in {"person"} \X Ids \X Namespaces |->
          MemGet(st, h, key[1], key[2], key[3]).value],
      [ns \in Namespaces |-> MemGetAll(st, h, "person", ns).value]>>

\* C9: the objects returned by get, getAll, find and save of the memory provider, and
\* the object passed to save, are never objects of the store, nested objects included;
\* the caller's assignments to them do not change what get or getAll return.
C9_NoAliasing ==
    [][backend = "memory" =>
          /\ NoAlias'
          /\ last'.op = "mutate" => ReadValues(store', heap') = ReadValues(store, heap)
      ]_vars

\* C9 witness: the caller saved the entity with the nested object, then assigned to
\* the fields of the object it passed and of the object it got back, nested ones
\* included, and get still returns the saved values
C9_Witness ==
    /\ backend = "memory"
    /\ last.op = "mutate" /\ last.after = "save"
    /\ Len(callerRefs) = 2
    /\ \A r \in Range(callerRefs) :
          /\ heap[r].name = "Mutated"
          /\ "tags" \in DOMAIN heap[r]
          /\ heap[heap[r].tags.ref].label = "mutated"
    /\ MemGet(store, heap, "person", "b", UNDEF).value.name = "New"
    /\ MemGet(store, heap, "person", "b", UNDEF).value.tags.label = "vip"

\* C10: a successful save(entity, ns) followed by get(entity.type, entity.id, ns)
\* returns an entity that carries every caller-supplied field with the same value,
\* fields the registered schema does not declare included, on the memory, filesystem
\* and hierarchical providers.
C10_SaveGetRoundTrip ==
    [][(/\ last.op = "save" /\ last.outcome = "ok"
        /\ last'.op = "get"
        /\ last'.type = last.type /\ last'.id = last.id
        /\ last'.namespace = last.namespace) =>
          \A k \in DOMAIN last.entity :
              k \in DOMAIN last'.value /\ last'.value[k] = last.entity[k]
      ]_vars

(* ---------------- context API and namespaces: the claims ---------------- *)

\* the namespaces the callers of the context API name
ApiNamespaces == {UNDEF, "work", "./work"}

\* the entity that the provider holds under (type, id, ns) when the disk is f, the
\* store st and the heap h: the record of the file <id>.yaml, or the value of the
\* object in the Map of the type; Undefined when there is none
StoredEntity(f, st, h, type, id, ns) ==
    IF backend = "memory"
    THEN IF /\ MapHas(st, ResolveNamespace(ns))
            /\ MapHas(MapGet(st, ResolveNamespace(ns)), type)
            /\ MapHas(MapGet(MapGet(st, ResolveNamespace(ns)), type), id)
         THEN Deref(h, MapGet(MapGet(MapGet(st, ResolveNamespace(ns)), type), id))
         ELSE Undefined
    ELSE IF type \notin RegisteredTypes THEN Undefined
    ELSE ReadEntity(f, GetEntityPath(Provider, type, id, ns), type)

\* the step is a call of one of the operations `ops` (time passes between calls, not
\* during one)
Called(ops) == clock' = clock /\ last'.op \in ops

\* C11: across provider save, API update and API upsert calls on one (type, id,
\* namespace), on the memory and on the filesystem provider, the stored createdAt
\* stays what it was once set, and every such write makes updatedAt strictly later.
C11_CreatedAtPreserved ==
    [][(Called({"save", "update", "upsert"}) /\ last'.outcome = "ok") =>
          LET before == StoredEntity(fs, store, heap, last'.type, last'.id, last'.namespace)
              after == StoredEntity(fs', store', heap', last'.type, last'.id, last'.namespace)
          IN  /\ "createdAt" \in DOMAIN before => after.createdAt = before.createdAt
              /\ "updatedAt" \in DOMAIN before => after.updatedAt > before.updatedAt
      ]_vars

\* whether the provider holds something under (type, id, ns), as exists tells
StoredExists(f, st, type, id, ns) ==
    IF backend = "memory"
    THEN /\ MapHas(st, ResolveNamespace(ns))
         /\ MapHas(MapGet(st, ResolveNamespace(ns)), type)
         /\ MapHas(MapGet(MapGet(st, ResolveNamespace(ns)), type), id)
    ELSE FsExists(Provider, f, type, id, ns)

\* the entities the provider holds for (type, ns), in the order getAll lists them
StoredAll(f, d, st, h, type, ns) ==
    IF backend = "memory"
    THEN IF /\ MapHas(st, ResolveNamespace(ns))
            /\ MapHas(MapGet(st, ResolveNamespace(ns)), type)
         THEN DerefAll(h, MapValues(MapGet(MapGet(st, ResolveNamespace(ns)), type)))
         ELSE <<>>
    ELSE FsGetAll(Provider, f, d, type, ns)

\* what get, exists and getAll return for the namespace ns
Reads(f, d, st, h, ns) ==
    <<[id \in Ids |-> StoredEntity(f, st, h, "person", id, ns)],
      [id \in Ids |-> StoredExists(f, st, "person", id, ns)],
      StoredAll(f, d, st, h, "person", ns)>>

\* a and b name two namespaces (none given names the default namespace, which the
\* memory provider calls '_default')
OtherNamespace(a, b) ==
    IF backend = "memory" THEN ResolveNamespace(a) # ResolveNamespace(b) ELSE a # b

\* the calls that write, of a provider and of a context
ApiWriteOps == {"save", "delete", "create", "update", "upsert"}

\* C12: a save or delete in namespace A, made through the memory or the filesystem
\* provider or through a context (withNamespace included), never changes what get,
\* getAll and exists return for any other namespace B, the default namespace included.
C12_NamespacesDisjoint ==
    [][Called(ApiWriteOps) =>
          \A B \in ApiNamespaces :
              OtherNamespace(last'.namespace, B) =>
                  Reads(fs', dirs', store', heap', B) = Reads(fs, dirs, store, heap, B)
      ]_vars


\* the step left the disk and every stored entity as they were (the empty Maps a read
\* of the memory provider creates hold no entity)
NoWrite ==
    /\ fs' = fs /\ dirs' = dirs
    /\ \A B \in ApiNamespaces :
          Reads(fs', dirs', store', heap', B) = Reads(fs, dirs, store, heap, B)

\* the step is a call of one of `ops` for a key under which the provider holds nothing
CalledOnMissing(ops) ==
    /\ Called(ops)
    /\ ~StoredExists(fs, store, last'.type, last'.id, last'.namespace)

\* what C13 says of the outcomes of update, get and delete
MissingOutcomes ==
    /\ CalledOnMissing({"update"}) => last'.outcome = "EntityNotFoundError" /\ NoWrite
    /\ CalledOnMissing({"get"}) => last'.outcome = "ok" /\ last'.value = Undefined
    /\ CalledOnMissing({"delete"}) => last'.outcome = "ok" /\ last'.value = FALSE

\* C13 as stated: update(type, id, updates, ns) of an entity that does not exist in ns
\* rejects with EntityNotFoundError and writes nothing, while get and delete of the
\* same missing entity return undefined and false and raise no error.
C13_MissingEntity ==
    [][MissingOutcomes]_vars

\* C13 amended: the above holds for the types the provider accepts (every type on the
\* memory provider, the registered types on the filesystem provider) and, for delete,
\* on a provider that is not readonly; for an unregistered type the filesystem
\* provider raises SchemaNotRegisteredError from all three calls, and delete on a
\* readonly provider raises ReadonlyStorageError before anything else is looked at.
C13_MissingEntityAmended ==
    [][LET accepted == backend = "memory" \/ last'.type \in RegisteredTypes
       IN  /\ (CalledOnMissing({"update"}) /\ accepted) =>
                  last'.outcome = "EntityNotFoundError" /\ NoWrite
           /\ (CalledOnMissing({"get"}) /\ accepted) =>
                  last'.outcome = "ok" /\ last'.value = Undefined
           /\ (CalledOnMissing({"delete"}) /\ accepted /\ ~readonly) =>
                  last'.outcome = "ok" /\ last'.value = FALSE
           /\ (CalledOnMissing({"update", "get"}) /\ ~accepted) =>
                  last'.outcome = "SchemaNotRegisteredError" /\ NoWrite
           /\ (CalledOnMissing({"delete"}) /\ ~accepted /\ ~readonly) =>
                  last'.outcome = "SchemaNotRegisteredError" /\ NoWrite
           /\ (CalledOnMissing({"delete"}) /\ readonly) =>
                  last'.outcome = "ReadonlyStorageError" /\ NoWrite
      ]_vars

\* C13 witness: update through the 'work' context was rejected with
\* EntityNotFoundError while the default namespace holds an entity of that id
C13_Witness ==
    /\ last.op = "update" /\ last.outcome = "EntityNotFoundError"
    /\ last.type = "person" /\ last.namespace = "work"
    /\ ~StoredExists(fs, store, "person", last.id, "work")
    /\ StoredExists(fs, store, "person", last.id, UNDEF)


\* the multi-namespace context of the callers and its resolution
Multi == MultiContext(<<"./work", "work">>)
Resolution == Resolve(Multi.requested)

\* the step is a create, update, upsert or delete of the multi-namespace context
\* without an explicit namespace (delete is forwarded to the provider with
\* resolution.primary)
MultiWrite ==
    \/ /\ Called({"create"}) /\ last'.ctx = Multi /\ last'.options.namespace = UNDEF
    \/ /\ Called({"update", "upsert"}) /\ last'.ctx = Multi /\ last'.given = UNDEF
    \/ /\ Called({"delete"}) /\ last'.namespace = Resolution.primary

\* C16: create, update, upsert and delete of a multi-namespace context, called without
\* an explicit namespace, act on resolution.primary only: what the other readable
\* namespaces store is never created, changed or removed by such a call.
C16_WritesPrimaryOnly ==
    [][MultiWrite =>
          /\ last'.namespace = Resolution.primary
          /\ \A i \in 1..Len(Resolution.readable) :
                Resolution.readable[i] # Resolution.primary =>
                    Reads(fs', dirs', store', heap', Resolution.readable[i])
                        = Reads(fs, dirs, store, heap, Resolution.readable[i])
      ]_vars


(* ---------------- resolver, multi-namespace reads and search: the claims ---------------- *)

\* C14: whatever is requested (nothing, a string, any list: empty, with duplicates,
\* with an empty string), the resolution has exactly one reference with
\* writable = true, whose namespace is primary, and readable is not empty and starts
\* with primary.
C14_OneWritablePrimaryFirst ==
    last.op = "resolve" =>
        LET resolution == last.value
            writable == {i \in 1..Len(resolution.references) : resolution.references[i].writable}
        IN  /\ Cardinality(writable) = 1
            /\ \A i \in writable : resolution.references[i].namespace = resolution.primary
            /\ resolution.readable # <<>>
            /\ resolution.readable[1] = resolution.primary


\* the namespaces a multi-namespace context reads, in the requested order
ReadableOf(ctx) == Resolve(ctx.requested).readable

\* C15: getFromAny(type, id) and locateEntity(type, id) answer with the same
\* namespace, the earliest of the requested order that holds the id, and
\* getAllMerged(type) returns one entity per id, the one getFromAny returns for it.
C15_EarliestNamespaceWins ==
    \A ctx \in QueryContexts, id \in Ids :
        LET found == GetFromAny(World, ReadableOf(ctx), "person", id).value
            located == LocateEntity(World, ReadableOf(ctx), "person", id).value
            merged == GetAllMerged(World, ReadableOf(ctx), "person").value
            ofId == {i \in 1..Len(merged) : merged[i].id = id}
        IN  /\ found = Undefined <=> located = Undefined
            /\ found # Undefined =>
                  /\ located.namespace = found.namespace
                  /\ \A i \in 1..Len(ReadableOf(ctx)) :
                        ProviderGet(World, "person", id, ReadableOf(ctx)[i]).value # Undefined
                            => \E j \in 1..i : ReadableOf(ctx)[j] = found.namespace
                  /\ Cardinality(ofId) = 1
                  /\ \A i \in ofId : merged[i] = found.entity
            /\ found = Undefined => ofId = {}


\* the sorted list of the entities that pass the filters of the last search: what
\* the same search returns when no page is asked for
SortedFiltered == ApiSearch(World, last.ctx, Omit(last.options, {"offset", "limit"})).value.items

\* the elements of list at the positions from + 1 .. to (positions start at 1)
Slice(list, from, to) ==
    SubSeq(list, from + 1, IF to < Len(list) THEN to ELSE Len(list))

\* C17: for every offset >= 0 and every given limit >= 0, total is the number of
\* entities that pass the filters, items is the slice [offset, offset + limit) of the
\* sorted filtered list and hasMore is offset + limit < total; without a limit, items
\* is everything from offset on and hasMore is false.
C17_Pagination ==
    (last.op = "search" /\ last.outcome = "ok") =>
        LET offset == OptionOr(last.options, "offset", 0)
            result == last.value
        IN  /\ result.total = Len(SortedFiltered)
            /\ "limit" \in DOMAIN last.options =>
                  /\ result.items = Slice(SortedFiltered, offset, offset + last.options.limit)
                  /\ Len(result.items) <= last.options.limit
                  /\ result.hasMore = (offset + last.options.limit < result.total)
            /\ "limit" \notin DOMAIN last.options =>
                  /\ result.items = Slice(SortedFiltered, offset, Len(SortedFiltered))
                  /\ result.hasMore = FALSE


\* the value of `field` in a sorts before its value in b when the direction is asc:
\* strings in the order of the collation, dates by their time; an absent value after
\* every value
ValueBefore(a, b, field) ==
    IF field \notin DOMAIN a THEN FALSE
    ELSE IF field \notin DOMAIN b THEN TRUE
    ELSE IF field \in DateFields THEN a[field] < b[field]
    ELSE LocaleCompare(a[field], b[field]) < 0

\* a and b are equal on `field`
ValueEqual(a, b, field) == ~ValueBefore(a, b, field) /\ ~ValueBefore(b, a, field)

\* a belongs before b under the sort keys taken in sequence
BelongsBefore(a, b, sort) ==
    \E k \in 1..Len(sort) :
        /\ \A j \in 1..(k - 1) : ValueEqual(a, b, sort[j].field)
        /\ IF sort[k].direction = "asc" THEN ValueBefore(a, b, sort[k].field)
           ELSE ValueBefore(b, a, sort[k].field)

\* C18: the items of a search are ordered by the sort keys in sequence, entities equal
\* on one key being ordered by the next, with absent values last for asc and first for
\* desc: no item comes after an item it belongs before.
C18_SortedByKeysInSequence ==
    (last.op = "search" /\ last.outcome = "ok" /\ "sort" \in DOMAIN last.options) =>
        \A i, j \in 1..Len(last.value.items) :
            i < j => ~BelongsBefore(last.value.items[j], last.value.items[i], last.options.sort)


\* the options with the unregistered types taken out of the type list
RegisteredOnly(options) ==
    [options EXCEPT !.type = SelectSeq(options.type, LAMBDA t : t \in RegisteredTypes)]

\* C20: on the filesystem provider getAll, find and count for a type that is not
\* registered return an empty list / 0 and raise nothing, and a search over several
\* types does not fail because one of them is unregistered: it returns what the
\* search over the registered ones returns.
C20_UnknownTypeTolerated ==
    /\ (last.op = "getAll" /\ last.type \notin RegisteredTypes) =>
            last.outcome = "ok" /\ last.value = <<>>
    /\ (last.op = "find" /\ last.filter.type \notin RegisteredTypes \cup {UNDEF}) =>
            last.outcome = "ok" /\ last.value = <<>>
    /\ (last.op = "count" /\ last.filter.type \notin RegisteredTypes \cup {UNDEF}) =>
            last.outcome = "ok" /\ last.value = 0
    /\ (last.op = "search" /\ "type" \in DOMAIN last.options) =>
            /\ last.outcome = "ok"
            /\ last.value = ApiSearch(World, last.ctx, RegisteredOnly(last.options)).value

\* C20 witness: a search over an unregistered and a registered type returned the
\* entities of the registered one
C20_Witness ==
    /\ last.op = "search" /\ last.outcome = "ok"
    /\ "type" \in DOMAIN last.options
    /\ "ghost" \in Range(last.options.type) /\ "person" \in Range(last.options.type)
    /\ last.value.total > 0
    /\ \A i \in 1..Len(last.value.items) : last.value.items[i].type = "person"


RECURSIVE SumOver(_, _)
\* the sum of count[x] over the x in S
SumOver(count, S) ==
    IF S = {} THEN 0
    ELSE LET x == CHOOSE y \in S : TRUE
         IN  count[x] + SumOver(count, S \ {x})

\* how many times x comes in list
Times(list, x) == Cardinality({i \in 1..Len(list) : list[i] = x})

\* the number of entities the last search collected over its (type x namespace)
\* pairs, before any filter: what the provider holds for each pair, times the number
\* of times the pair comes in the lists
Candidates ==
    LET types == OptionOr(last.options, "type", <<"person">>)
        namespaces == OptionOr(last.options, "namespace", <<last.ctx.defaultNamespace>>)
    IN  SumOver([p \in Range(types) \X Range(namespaces) |->
                    Times(types, p[1]) * Times(namespaces, p[2])
                        * Len(StoredAll(fs, dirs, store, heap, p[1], p[2]))],
                Range(types) \X Range(namespaces))

\* C19: search fails with StorageAccessError exactly when the entities collected over
\* all (type x namespace) pairs, counted before the ids and text filters, are more than
\* 10,000; with 10,000 or fewer it does not fail, and it never returns more than
\* 10,000 entities.
C19_CapOnCandidates ==
    last.op = "search" =>
        /\ last.outcome = "StorageAccessError" <=> Candidates > MAX_SEARCH_ENTITIES
        /\ last.outcome # "StorageAccessError" =>
              /\ last.outcome = "ok"
              /\ last.value.total <= MAX_SEARCH_ENTITIES
              /\ Len(last.value.items) <= MAX_SEARCH_ENTITIES

\* C19 witness: a search that collected exactly 10,000 entities returned a result
\* while 'home' holds an entity that would be the 10,001st of another search
C19_Witness ==
    /\ last.op = "search" /\ last.outcome = "ok"
    /\ Candidates = MAX_SEARCH_ENTITIES
    /\ StoredAll(fs, dirs, store, heap, "person", "home") # <<>>

(* ---------------- the hierarchical provider and the ContextRoot it was created
   with ---------------- *)

\* hierarchical listNamespaces: contextRoot.allNamespaces
HierListNamespaces(root) == root.allNamespaces

\* hierarchical namespaceExists: contextRoot.allNamespaces.includes(ns)
HierNamespaceExists(root, ns) == ns \in Range(root.allNamespaces)

\* hierarchical listTypes: contextRoot.allTypes
HierListTypes(root) == root.allTypes

\* resolver.exists(namespace) of createNamespaceResolver({ provider }) with the
\* namespaces `configured`
ResolverExists(configured, root, namespace) ==
    namespace \in configured \/ HierNamespaceExists(root, namespace)

\* provider.listNamespaces()
ListNamespaces ==
    /\ backend = "hierarchical"
    /\ Read([op |-> "listNamespaces"], Ok(HierListNamespaces(contextRoot)))

\* provider.namespaceExists(ns)
NamespaceExists(nss) ==
    \E ns \in nss :
        /\ backend = "hierarchical"
        /\ Read([op |-> "namespaceExists", namespace |-> ns],
                Ok(HierNamespaceExists(contextRoot, ns)))

\* resolver.exists(ns) of a resolver without configured namespaces
ResolverExistsCall(nss) ==
    \E ns \in nss :
        /\ backend = "hierarchical"
        /\ Read([op |-> "resolver.exists", namespace |-> ns],
                Ok(ResolverExists({}, contextRoot, ns)))

\* <contextPath>/work/people/<id>.yaml of context directory i
WorkFile(i, id) == ContextPaths[i] \o <<"work", "people", WithExtension(id)>>

\* the disks: a.yaml of the default namespace and of the namespace work of each
\* context directory is absent or holds a record
RootedDisks ==
    LET slots == {PersonFile(i, "a") : i \in 1..Len(ContextPaths)}
                 \cup {WorkFile(i, "a") : i \in 1..Len(ContextPaths)}
    IN  { [q \in files |-> HandWritten(1, "a", "own")] : files \in SUBSET slots }

\* discoverContextRoot({ startDir: '/workspace/project', registry }) and
\* createHierarchicalProvider({ contextRoot, registry }) over the directories it found
InitRooted ==
    /\ backend = "hierarchical"
    /\ readonly = FALSE
    /\ schemas = << <<"person", [type |-> "person", pluralName |-> "people"]>> >>
    /\ directoryToType = << <<"people", "person">> >>
    /\ handlers = <<>>
    /\ emitted = <<>>
    /\ delivered = <<>>
    /\ inflight = <<>>
    /\ fs \in RootedDisks
    /\ dirs = DirsOf(fs)
    /\ contextRoot = DiscoverContextRoot([startDir |-> ProjectDir, registry |-> TRUE],
                                         fs, dirs, directoryToType)
    /\ contextRoot.contextPaths = ContextPaths
    /\ clock = 0
    /\ last = NoCall
    /\ store = <<>>
    /\ heap = EmptyHeap
    /\ callerRefs = <<>>

NextRooted ==
    \/ Save(ValidEntities \X Namespaces)
    \/ Delete({"person"} \X Ids \X Namespaces)
    \/ Get({"person"} \X Ids \X Namespaces)
    \/ ListNamespaces
    \/ NamespaceExists({"work"})
    \/ ResolverExistsCall({"work"})

SpecRooted == InitRooted /\ [][NextRooted]_vars

(* ---------------- filesystem provider over bad files: the claims ---------------- *)

\* the file is a record the person schema accepts once readEntity has put the
\* type on it
IsValidRecord(file) ==
    /\ file.parse = "object"
    /\ "id" \in DOMAIN file.body /\ MatchesIdPattern(file.body.id)
    /\ "name" \in DOMAIN file.body /\ file.body.name # ""

\* the names of the valid records of the people directory, in readdir order
ValidFileNames ==
    SelectSeq(FileNames, LAMBDA n : /\ IsYamlFile(n)
                                    /\ Append(PeopleDir(1), n) \in DOMAIN fs
                                    /\ IsValidRecord(fs[Append(PeopleDir(1), n)]))

\* the entity a valid record file is read as
RecordOf(n) ==
    Pick(Spread(fs[Append(PeopleDir(1), n)].body,
                [type |-> "person", source |-> Append(PeopleDir(1), n)]),
         DeclaredKeys("person"))

\* the valid records of the people directory
ScannedRecords == [k \in 1..Len(ValidFileNames) |-> RecordOf(ValidFileNames[k])]

\* C21: getAll and find of the filesystem provider over a directory that mixes
\* valid records with unparseable files, non-object values and records the schema
\* rejects do not throw; getAll returns exactly the valid records and find returns
\* the valid records its filter selects, wherever the bad files are
C21_BadFilesSkipped ==
    /\ (last.op = "getAll" /\ last.type = "person" /\ last.namespace = UNDEF) =>
          last.outcome = "ok" /\ last.value = ScannedRecords
    /\ (last.op = "find" /\ last.filter.namespace = UNDEF) =>
          /\ last.outcome = "ok"
          /\ last.value = Paginate(SelectSeq(ScannedRecords,
                                             LAMBDA e : MatchesFilter(e, last.filter)),
                                   last.filter)

\* getAll returned two records from a directory whose middle file is unparseable
C21_Witness ==
    /\ last.op = "getAll"
    /\ Len(last.value) = 2
    /\ PersonFile(1, "a") \in DOMAIN fs /\ PersonFile(1, "new") \in DOMAIN fs
    /\ PersonFile(1, "b") \in DOMAIN fs /\ fs[PersonFile(1, "b")].parse = "error"

(* ---------------- schema registry: the claims ---------------- *)

\* C22: after any sequence of register calls the type -> plural-name map and the
\* plural-name -> type map are inverse of each other: every registered type is
\* the type of its directory name, and every directory name that maps to a type
\* is the current plural name of that type
C22_MapsInverse ==
    /\ \A t \in Range(registeredTypes) : getTypeFromDirectory(getDirectoryName(t)) = t
    /\ \A e \in Range(directoryToType) : getDirectoryName(e[2]) = e[1]

\* the outcome of saving an entity of a registered type that its schema rejects
SchemaFailure == "ValidationError"

\* C23: saving an entity whose type is not registered, on a provider that accepts
\* writes, fails with an unknown-type error that differs in kind from the failure
\* of a registered type's schema validation
C23_UnknownTypeDistinct ==
    (~readonly /\ last.op = "save" /\ last.entity.type \notin RegisteredTypes) =>
        last.outcome \notin {"ok", SchemaFailure}

(* ---------------- observable provider: the claims ---------------- *)

\* C24: a successful save of the observable provider emits exactly one event, after
\* the underlying save (the event carries the saved entity): entity:updated with the
\* previous entity when the provider held (type, id, namespace) before the save,
\* entity:created when it did not
C24_SaveEmitsCreatedOrUpdated ==
    [][(Called({"save"}) /\ last'.outcome = "ok") =>
          /\ Len(emitted') = 1
          /\ emitted'[1].entity = last'.value
          /\ IF StoredExists(fs, store, last'.type, last'.id, last'.namespace)
             THEN /\ emitted'[1].type = "entity:updated"
                  /\ emitted'[1].previousEntity
                        = StoredEntity(fs, store, heap, last'.type, last'.id, last'.namespace)
             ELSE emitted'[1].type = "entity:created"
      ]_vars

\* C25: delete of the observable provider emits exactly one entity:deleted event when
\* the underlying delete returns true and none when it returns false; saveBatch and
\* deleteBatch that succeed emit exactly one batch event each and no per-entity
\* event; a save, delete, saveBatch or deleteBatch that rejects emits nothing
C25_WriteEvents ==
    /\ (last.op = "delete" /\ last.outcome = "ok") =>
          emitted = IF last.value
                    THEN <<[type |-> "entity:deleted", timestamp |-> clock,
                            namespace |-> last.namespace, entityType |-> last.type,
                            entityId |-> last.id]>>
                    ELSE <<>>
    /\ (last.op = "saveBatch" /\ last.outcome = "ok") =>
          emitted = <<[type |-> "batch:saved", timestamp |-> clock,
                       namespace |-> last.namespace, entities |-> last.value]>>
    /\ (last.op = "deleteBatch" /\ last.outcome = "ok") =>
          emitted = <<[type |-> "batch:deleted", timestamp |-> clock,
                       namespace |-> last.namespace, refs |-> last.refs,
                       deletedCount |-> last.value]>>
    /\ (last.op \in WriteOps /\ last.outcome # "ok") => emitted = <<>>

\* a saveBatch of two entities reached a subscribed handler as one batch:saved event
C25_Witness ==
    /\ last.op = "saveBatch" /\ last.outcome = "ok" /\ Len(last.value) = 2
    /\ Len(emitted) = 1 /\ Len(delivered) >= 1

\* the number of times handler h was called with event e by the last call
Receipts(calls, h, e) ==
    Cardinality({k \in 1..Len(calls) : calls[k].handler = h /\ calls[k].event = e})

C27_DiscoverBounded ==
    last.op = "discover" =>
        /\ last.outcome = "ok"
        /\ Len(last.examined) <= last.options.maxLevels
        /\ Len(last.value) <= last.options.maxLevels

\* a walk that starts below the link and goes up through it has returned, and a
\* walk from src has used all its levels
C27_Witness ==
    /\ last.op = "discover"
    /\ LoopLink \in DOMAIN fs
    /\ last.options.maxLevels = MaxLevels
    /\ \/ /\ last.options.startDir = Append(LoopLink, "project")
          /\ last.examined = <<Append(LoopLink, "project"), LoopLink>>
       \/ /\ last.options.startDir = SrcDir
          /\ Len(last.examined) = MaxLevels

\* the directories discover or discoverContextRoot returned
Discovered == IF last.op = "discover" THEN last.value ELSE last.value.directories

\* C28: discover returns the context directories closest first with strictly
\* increasing level and, when it found any, the first entry has level 0;
\* ContextRoot.primary is the path of that entry (undefined when nothing was found)
\* and contextPaths lists the paths of the entries in their order
C28_ClosestFirstFromLevelZero ==
    last.op \in {"discover", "discoverContextRoot"} =>
        /\ \A i \in 1..(Len(Discovered) - 1) :
              /\ Discovered[i].level < Discovered[i + 1].level
              /\ Len(Discovered[i + 1].path) < Len(Discovered[i].path)
              /\ IsUnder(Discovered[i].path, Dirname(Discovered[i + 1].path))
        /\ Discovered # <<>> => Discovered[1].level = 0
        /\ last.op = "discoverContextRoot" =>
              /\ last.value.primary = IF Discovered = <<>> THEN Undefined
                                      ELSE [path |-> Discovered[1].path]
              /\ last.value.contextPaths
                    = [i \in 1..Len(Discovered) |-> Discovered[i].path]

\* the directory dir stops a walk with the options of the last call: it is stopAt,
\* it holds a stop marker, or it is the root
Stops(dir) ==
    \/ dir = <<>>
    \/ "stopAt" \in DOMAIN last.options /\ dir = last.options.stopAt
    \/ \E i \in 1..Len(last.options.stopMarkers) :
          ExistsSync(fs, dirs, Append(dir, last.options.stopMarkers[i]))

\* the first directory that stops the walk up from startDir
StopDir ==
    LET start == last.options.startDir
        n == CHOOSE k \in 0..Len(start) :
                /\ Stops(SubSeq(start, 1, k))
                /\ \A m \in (k + 1)..Len(start) : ~Stops(SubSeq(start, 1, m))
    IN  SubSeq(start, 1, n)

\* C29: the first directory on the way up from startDir that is stopAt, holds a
\* stop marker or is the root is looked at for a context directory when it is
\* within maxLevels of startDir, and no directory above it is looked at or
\* returned; what is returned is the context directory of every directory looked
\* at that has one
C29_StopsAtFirstStopDir ==
    last.op = "discover" =>
        /\ \A i \in 1..Len(last.examined) : IsUnder(last.examined[i], StopDir)
        /\ \A i \in 1..Len(last.value) : IsUnder(last.value[i].path, StopDir)
        /\ Len(last.options.startDir) - Len(StopDir) < last.options.maxLevels =>
              \E i \in 1..Len(last.examined) : last.examined[i] = StopDir
        /\ [i \in 1..Len(last.value) |-> last.value[i].path]
              = LET looked == SelectSeq(last.examined,
                                        LAMBDA e : ExistsSync(fs, dirs, Append(e, "context")))
                IN  [i \in 1..Len(looked) |-> Append(looked[i], "context")]


\* C30: on a constructed hierarchical provider no read operation (get, getAll,
\* find, exists, count) throws; for an unregistered type it answers undefined,
\* an empty list, false or 0
C30_HierReadsNeverThrow ==
    (backend = "hierarchical" /\ last # NoCall
        /\ last.op \in {"get", "getAll", "find", "exists", "count"})
    => /\ last.outcome = "ok"
       /\ (last.op = "get" /\ last.type = "ghost") => last.value = Undefined
       /\ (last.op = "getAll" /\ last.type = "ghost") => last.value = <<>>
       /\ (last.op = "exists" /\ last.type = "ghost") => last.value = FALSE

(* ---------------- filesystem provider reads: ids, existence ---------------- *)

\* the file get(type, id) of the filesystem provider reads for the default namespace
FileOfGet == PersonFile(1, last.id)

\* C31: the filesystem provider takes the id of a record from its file name: a
\* record whose body has no id key (and is valid otherwise) is read with the id of
\* the file name, and every entity get(type, id) returns has the id and the type
\* that were asked for, whatever id the body holds
C31_IdFromFileName ==
    (last.op = "get" /\ last.type = "person" /\ last.outcome = "ok") =>
        /\ (/\ FileOfGet \in DOMAIN fs
            /\ fs[FileOfGet].parse = "object"
            /\ "id" \notin DOMAIN fs[FileOfGet].body
            /\ fs[FileOfGet].body.name # "")
           => last.value # Undefined
        /\ last.value # Undefined => last.value.id = last.id /\ last.value.type = last.type

(* ---------------- memory provider: initialData ---------------- *)

\* C32: the memory provider copies initialData on the way in: the caller's
\* assignments to the objects of the initialData array, made at any time after the
\* provider was created, do not change what get or getAll return
C32_InitialDataCopied ==
    [][(backend = "memory" /\ last'.op = "mutate")
          => ReadValues(store', heap') = ReadValues(store, heap)
      ]_vars

(* ---------------- hierarchical provider over two types ---------------- *)

\* the (type, id) pairs some context directory holds a record of
HeldKeys ==
    {k \in {"person", "company"} \X Ids :
        \E i \in 1..Len(ContextPaths) : RecordFile(i, k[1], k[2]) \in DOMAIN fs}

\* C33: find and count of the hierarchical provider over a filter without a type
\* return every entity of every type: an entity is returned for each (type, id) a
\* directory holds, also when two types share an id, and count is their number
C33_FindKeepsEveryType ==
    /\ (last.op = "find" /\ last.filter = NoFilter) =>
          /\ Len(last.value) = Cardinality(HeldKeys)
          /\ \A k \in HeldKeys :
                \E j \in 1..Len(last.value) :
                    last.value[j].type = k[1] /\ last.value[j].id = k[2]
    /\ (last.op = "count" /\ last.filter = NoFilter) =>
          last.value = Cardinality(HeldKeys)

\* what get(type, id, namespace) of the provider in use returns in this state
GetNow(type, id, namespace) ==
    IF backend = "hierarchical" THEN HierGet(fs, type, id, namespace)
    ELSE FsGet(Provider, fs, type, id, namespace)

\* what exists(type, id, namespace) of the provider in use returns in this state
ExistsNow(type, id, namespace) ==
    IF backend = "hierarchical" THEN HierExists(fs, type, id, namespace)
    ELSE FsExists(Provider, fs, type, id, namespace)

\* C34: on the filesystem and the hierarchical provider exists(type, id, ns) returns
\* true exactly when get(type, id, ns) returns an entity, also over directories
\* that hold corrupt or schema-invalid files
C34_ExistsIffGet ==
    /\ (last.op = "exists" /\ last.type = "person") =>
          last.value = (GetNow(last.type, last.id, last.namespace).value # Undefined)
    /\ (last.op = "get" /\ last.type = "person") =>
          (last.value # Undefined) = ExistsNow(last.type, last.id, last.namespace)

(* ---------------- overlapping calls: the claims ---------------- *)

\* caller p's last call was a create that returned an entity
Created(p) ==
    /\ inflight[p].pc = "returned" /\ inflight[p].op = "create"
    /\ inflight[p].outcome = "ok"

\* C35: create with a generated id never overwrites an entity: any two create
\* calls with the same name, type and namespace that have returned, also when
\* their steps interleaved, have stored two entities with different ids
C35_CreateNeverOverwrites ==
    \A p \in Callers, q \in Callers :
        (/\ p # q /\ Created(p) /\ Created(q)
         /\ inflight[p].data.name = inflight[q].data.name
         /\ inflight[p].type = inflight[q].type
         /\ inflight[p].namespace = inflight[q].namespace)
        => /\ inflight[p].id # inflight[q].id
           /\ ProviderExists(World, inflight[p].type, inflight[p].id,
                             inflight[p].namespace).value
           /\ ProviderExists(World, inflight[q].type, inflight[q].id,
                             inflight[q].namespace).value

\* the key save(entity, namespace) writes holds an entity
Stored(entity, namespace) ==
    ProviderGet(World, entity.type, entity.id, namespace).value # Undefined

\* C36: when saves of the observable provider on one key overlap, the save that
\* creates the entity emits entity:created and every other one entity:updated: a
\* save that returns emits entity:created exactly when the key held no entity
\* before it wrote, so a key that did not exist gets one entity:created
C36_OneCreatedPerKey ==
    [][\A p \in Callers :
          (/\ inflight[p].pc = "save" /\ inflight[p].op = "save"
           /\ inflight'[p].pc = "returned" /\ inflight'[p].outcome = "ok")
          => /\ Len(emitted') = 1
             /\ emitted'[1].type = IF Stored(inflight[p].entity, inflight[p].namespace)
                                   THEN "entity:updated" ELSE "entity:created"
      ]_vars

(* ---------------- backend equivalence ---------------- *)

\* C37: given the same sequence of save, saveBatch, delete and deleteBatch calls,
\* a saveBatch with an entity that fails validation included, the memory provider
\* and the filesystem provider reject the same calls and hold the same keys
C37_BackendsAgree ==
    /\ last # NoCall => (last.outcome = "ok") = (last.filesystem.outcome = "ok")
    /\ \A id \in Ids :
          MemExists(store, heap, "person", id, UNDEF).value
          = FsExists(Provider, fs, "person", id, UNDEF)

(* ---------------- namespaces of the hierarchical and the memory provider ---------------- *)

\* some context directory holds a record in the namespace ns
HoldsRecord(ns) ==
    \E id \in Ids : HierGet(fs, "person", id, ns).value # Undefined

\* C38: after a successful save(entity, ns) through the hierarchical provider,
\* namespaceExists(ns) is true, listNamespaces() contains ns and the resolver's
\* exists(ns) is true
C38_SavedNamespaceExists ==
    /\ (last.op = "save" /\ last.outcome = "ok" /\ last.namespace # UNDEF) =>
          /\ HierNamespaceExists(contextRoot, last.namespace)
          /\ last.namespace \in Range(HierListNamespaces(contextRoot))
          /\ ResolverExists({}, contextRoot, last.namespace)
    /\ (last.op \in {"namespaceExists", "resolver.exists"} /\ HoldsRecord(last.namespace)) =>
          last.value
    /\ (last.op = "listNamespaces" /\ HoldsRecord("work")) => "work" \in Range(last.value)

\* C39: the read operations of the memory provider (get, getAll, find, exists,
\* count) and a delete that returns false have no observable effect: listNamespaces,
\* namespaceExists and listTypes answer the same before and after the call
C39_ReadsLeaveNamespaces ==
    [][(/\ backend = "memory"
        /\ \/ last'.op \in {"get", "getAll", "find", "exists", "count"}
           \/ (last'.op = "delete" /\ last'.outcome = "ok" /\ ~last'.value))
       => /\ MemListNamespaces(store') = MemListNamespaces(store)
          /\ \A ns \in {"_default", "work"} :
                MemNamespaceExists(store', ns) = MemNamespaceExists(store, ns)
          /\ \A ns \in Namespaces : MemListTypes(store', ns) = MemListTypes(store, ns)
      ]_vars


(* ---------------- C40 ---------------- *)

\* the namespace a multi-namespace context reads by default: resolution.primary
PrimaryOf(ctx) == Resolve(ctx.requested).primary

\* C40: search and quickSearch of a multi-namespace context, called without a
\* namespace, return what a search of the context's primary namespace returns
C40_SearchUsesPrimary ==
    /\ last.op \in {"search", "quickSearch"}
    /\ "requested" \in DOMAIN last.ctx
    /\ "namespace" \notin DOMAIN last.options
    => LET options == IF last.op = "search" THEN last.options
                      ELSE Spread(last.options, [search |-> last.query])
           r == ApiSearch(World, last.ctx,
                          Spread(options, [namespace |-> <<PrimaryOf(last.ctx)>>]))
       IN  /\ last.outcome = r.outcome
           /\ r.outcome = "ok" =>
                  last.value = IF last.op = "search" THEN r.value ELSE r.value.items

====
